---- MODULE Spec2Model ----
(***************************************************************************)
(* CSV bank-statement import pipeline of the canopy backend                *)
(* (backend/services/csv_parser.py, class CSVParserService).               *)
(*                                                                         *)
(* Representation                                                          *)
(*   - a Python str is a sequence of one-character strings;                *)
(*   - an Optional[T] is a sequence of length <= 1 (<<>> is None);         *)
(*   - a datetime is the integer day * TodSlots + slot, where day is       *)
(*     year*10000 + month*100 + day-of-month and slot 0 is midnight;       *)
(*   - a float that came from a decimal literal with at most three         *)
(*     fractional digits is the integer number of thousandths it denotes;  *)
(*     the IEEE-754 binary64 rounding of that literal is made explicit     *)
(*     where the code does float arithmetic on it (_check_duplicate).      *)
(***************************************************************************)
EXTENDS Integers, Sequences, FiniteSets, TLC

VARIABLES
    file,        \* the data rows csv.DictReader yields for file_content
    config,      \* the CSVImportConfig of the call
    existing,    \* existing_transactions, in the collection's order
    now,         \* what datetime.now() returns
    callsLeft,   \* parse_csv_file calls the client still makes
    previews,    \* the results of the parse_csv_file calls so far
    created,     \* the last create_transactions_from_preview call
    cand,        \* arguments of a direct _check_duplicate call
    dupResult,   \* its result
    arg,         \* the argument of a direct call of a parser or of detect_bank_format
    result,      \* what that call returns
    api          \* the module state of backend/api/csv_import.py

vars == <<file, config, existing, now, callsLeft, previews, created, cand, dupResult,
         arg, result, api>>

(***************************************************************************)
(* Bounds of the model.                                                    *)
(***************************************************************************)
MaxRows == 2
MaxClock == 1
MaxCalls == 2
TodSlots == 2

None == <<>>
Some(x) == <<x>>

(***************************************************************************)
(* Python str methods.                                                     *)
(***************************************************************************)
Upper == <<"A","B","C","D","E","F","G","H","I","J","K","L","M",
           "N","O","P","Q","R","S","T","U","V","W","X","Y","Z",
           "Á","Ã","Ç","É","Ê","Í","Ó">>
LowerLetters == <<"a","b","c","d","e","f","g","h","i","j","k","l","m",
           "n","o","p","q","r","s","t","u","v","w","x","y","z",
           "á","ã","ç","é","ê","í","ó">>

LowerChar(c) ==
    IF \E i \in 1..Len(Upper) : Upper[i] = c
    THEN LowerLetters[CHOOSE i \in 1..Len(Upper) : Upper[i] = c]
    ELSE c

\* str.lower()
Lower(s) == [i \in 1..Len(s) |-> LowerChar(s[i])]

Whitespace == {" ", "\t", "\n", "\r"}

RECURSIVE LStrip(_)
LStrip(s) == IF s # <<>> /\ Head(s) \in Whitespace THEN LStrip(Tail(s)) ELSE s

RECURSIVE RStrip(_)
RStrip(s) == IF s # <<>> /\ s[Len(s)] \in Whitespace THEN RStrip(SubSeq(s, 1, Len(s) - 1)) ELSE s

\* str.strip()
Strip(s) == RStrip(LStrip(s))

\* s[from:] begins with pat
PrefixAt(s, pat) == /\ Len(pat) <= Len(s)
                    /\ SubSeq(s, 1, Len(pat)) = pat

StartsWith(s, pat) == PrefixAt(s, pat)
EndsWith(s, pat) == /\ Len(pat) <= Len(s)
                    /\ SubSeq(s, Len(s) - Len(pat) + 1, Len(s)) = pat

\* str.replace(old, ''): the non-overlapping occurrences, left to right
RECURSIVE Remove(_, _)
Remove(s, old) ==
    IF s = <<>> THEN <<>>
    ELSE IF PrefixAt(s, old) THEN Remove(SubSeq(s, Len(old) + 1, Len(s)), old)
    ELSE <<Head(s)>> \o Remove(Tail(s), old)

(***************************************************************************)
(* Python float(str) on the strings of the model: an optional sign, then   *)
(* digits with at most one '.', at least one digit, or the letters of      *)
(* "nan" in any case.  The value is the number of units of 10^-places; the *)
(* parsers of the service count in thousandths (places = 3), and a literal *)
(* with more fractional digits than places is outside the representation.  *)
(* NaN stands for float('nan'): it lies outside the range of the amounts,  *)
(* and every order comparison the code makes with it is guarded to be      *)
(* false, as in Python.                                                    *)
(***************************************************************************)
Digits == <<"0","1","2","3","4","5","6","7","8","9">>

IsDigit(c) == \E i \in 1..Len(Digits) : Digits[i] = c

DigitVal(c) == (CHOOSE i \in 1..Len(Digits) : Digits[i] = c) - 1

AllDigits(s) == \A i \in 1..Len(s) : IsDigit(s[i])

RECURSIVE NatVal(_)
NatVal(s) == IF s = <<>> THEN 0
             ELSE NatVal(SubSeq(s, 1, Len(s) - 1)) * 10 + DigitVal(s[Len(s)])

\* index of the first occurrence of c in s, 0 when absent
IndexOf(s, c) == IF \E i \in 1..Len(s) : s[i] = c
                 THEN CHOOSE i \in 1..Len(s) : s[i] = c /\ \A j \in 1..(i-1) : s[j] # c
                 ELSE 0

Pow10(n) == <<1, 10, 100, 1000, 10000, 100000, 1000000>>[n + 1]

\* the units of 10^-places a fractional part of up to places digits denotes
FracUnits(f, places) == IF f = <<>> THEN 0 ELSE NatVal(f) * Pow10(places - Len(f))

HasSign(s) == s # <<>> /\ Head(s) \in {"-", "+"}

SignOf(s) == IF s # <<>> /\ Head(s) = "-" THEN -1 ELSE 1

Unsigned(s) == IF HasSign(s) THEN Tail(s) ELSE s

PyFloatValue(sign, ip, fp, places) ==
    IF AllDigits(ip) /\ AllDigits(fp) /\ Len(ip) + Len(fp) >= 1
    THEN [ok |-> TRUE, val |-> sign * (NatVal(ip) * Pow10(places) + FracUnits(fp, places))]
    ELSE [ok |-> FALSE, val |-> 0]

PyFloatSplit(sign, body, dot, places) ==
    PyFloatValue(sign,
                 IF dot = 0 THEN body ELSE SubSeq(body, 1, dot - 1),
                 IF dot = 0 THEN <<>> ELSE SubSeq(body, dot + 1, Len(body)),
                 places)

NaN == 2000000000

IsNaN(x) == x = NaN

PyFloatBody(sign, body, places) ==
    IF Lower(body) = <<"n","a","n">> THEN [ok |-> TRUE, val |-> NaN]
    ELSE PyFloatSplit(sign, body, IndexOf(body, "."), places)

\* [ok |-> the literal is a float, val |-> its value in units of 10^-places]
PyFloat(s, places) == PyFloatBody(SignOf(s), Unsigned(s), places)

\* try: return float(s) / except ValueError: return 0.0
FloatOrZero(f) == IF f.ok THEN f.val ELSE 0

Abs(x) == IF x < 0 THEN -x ELSE x

(***************************************************************************)
(* CSVParserService._parse_amount                                          *)
(***************************************************************************)
AmountSymbols == << <<"$">>, <<"€">>, <<"£">>, <<"R","$">>, <<"C","$">>,
                    <<"C","A","D">>, <<"U","S","D">>, <<"B","R","L">>, <<" ">> >>

RECURSIVE RemoveAll(_, _)
RemoveAll(s, symbols) ==
    IF symbols = <<>> THEN s
    ELSE RemoveAll(Remove(s, Head(symbols)), Tail(symbols))

\* "Handle parentheses as negative (accounting format)"
ParenToMinus(s) ==
    IF StartsWith(s, <<"(">>) /\ EndsWith(s, <<")">>)
    THEN <<"-">> \o SubSeq(s, 2, Len(s) - 1)
    ELSE s

\* the function, its result counted in units of 10^-places
ParseAmountAt(amount_str, places) ==
    IF amount_str = <<>> THEN 0
    ELSE FloatOrZero(PyFloat(ParenToMinus(
             Remove(RemoveAll(Strip(amount_str), AmountSymbols), <<",">>)), places))

_parse_amount(amount_str) == ParseAmountAt(amount_str, 3)

(***************************************************************************)
(* CSVParserService._parse_brazilian_amount                                *)
(***************************************************************************)
BrazilianSymbols == << <<"R","$">>, <<"B","R","L">>, <<" ">> >>

\* [neg |-> is_negative, s |-> amount_str] after the parentheses test
BrParen(s) ==
    IF StartsWith(s, <<"(">>) /\ EndsWith(s, <<")">>)
    THEN [neg |-> TRUE, s |-> SubSeq(s, 2, Len(s) - 1)]
    ELSE [neg |-> FALSE, s |-> s]

\* ... after the leading '-' test
BrDash(p) ==
    IF StartsWith(p.s, <<"-">>) THEN [neg |-> TRUE, s |-> Tail(p.s)] ELSE p

\* variant: the decimal comma is left in place
CommaKept(s) == s

CommaToDot(s) == [i \in 1..Len(s) |-> IF s[i] = "," THEN "." ELSE s[i]]

BrValue(neg, f) == IF f.ok THEN (IF neg THEN -f.val ELSE f.val) ELSE 0

BrParse(p, places) == BrValue(p.neg, PyFloat(CommaToDot(Remove(p.s, <<".">>)), places))

\* the function, its result counted in units of 10^-places
ParseBrazilianAmountAt(amount_str, places) ==
    IF amount_str = <<>> THEN 0
    ELSE BrParse(BrDash(BrParen(RemoveAll(Strip(amount_str), BrazilianSymbols))), places)

_parse_brazilian_amount(amount_str) == ParseBrazilianAmountAt(amount_str, 3)

(***************************************************************************)
(* IEEE-754 binary64 arithmetic of the expression                          *)
(*     abs(tx.amount - amount) < 0.01                                      *)
(* of _check_duplicate, computed exactly.  For a positive number of        *)
(* thousandths x, float(x/1000) = m * 2^-e with 2^52 <= m < 2^53, and      *)
(*     float(x/1000) = (x + rho / 2^e) / 1000,                             *)
(* where rho = 1000*m - x*2^e is the rounding error (round to nearest,     *)
(* ties to even), obtained from x * 2^e modulo 2000.                       *)
(***************************************************************************)
RECURSIVE Pow2(_)
Pow2(k) == IF k = 0 THEN 1 ELSE 2 * Pow2(k - 1)

RECURSIVE Pow2Mod(_, _)
Pow2Mod(e, m) == IF e = 0 THEN 1 % m ELSE (2 * Pow2Mod(e - 1, m)) % m

\* floor(log2(x / 1000)) for x >= 1000
RECURSIVE Log2Up(_, _)
Log2Up(x, k) == IF 1000 * Pow2(k + 1) <= x THEN Log2Up(x, k + 1) ELSE k

\* -floor(log2(x / 1000)) for 0 < x < 1000
RECURSIVE Log2Down(_, _)
Log2Down(x, j) == IF x * Pow2(j) < 1000 THEN Log2Down(x, j + 1) ELSE j

\* the binary exponent e of float(x/1000) for x > 0
BinExpPos(x) == IF x >= 1000 THEN 52 - Log2Up(x, 0) ELSE 52 + Log2Down(x, 0)

\* the rounding error of x > 0 at exponent e, from t = x * 2^e mod 2000
RoundingError(t) ==
    IF t % 1000 < 500 THEN -(t % 1000)
    ELSE IF t % 1000 > 500 THEN 1000 - (t % 1000)
    ELSE IF (t \div 1000) % 2 = 0 THEN -500 ELSE 500

RhoAt(x, e) == RoundingError(((x % 2000) * Pow2Mod(e, 2000)) % 2000)

FloatRepAt(x, e, sign) == [e |-> e, rho |-> sign * RhoAt(x, e)]

\* [e, rho] of float(x/1000); zero is exact
FloatRep(x) ==
    IF x = 0 THEN [e |-> 60, rho |-> 0]
    ELSE FloatRepAt(Abs(x), BinExpPos(Abs(x)), IF x < 0 THEN -1 ELSE 1)

Max2(a, b) == IF a >= b THEN a ELSE b
Min2(a, b) == IF a >= b THEN b ELSE a

\* the sign of (float(hi) - float(lo)) - (float(0.01) - 2^-60) when hi - lo
\* is one cent, scaled by 1000 * 2^E
CentTieAt(h, l, c, E) ==
    h.rho * Pow2(E - h.e) - l.rho * Pow2(E - l.e) - c.rho * Pow2(E - c.e)
      + 1000 * Pow2(E - 60)

CentTie(h, l, c) == CentTieAt(h, l, c, Max2(Max2(h.e, l.e), 60)) <= 0

\* float(0.01) has an odd mantissa at exponent 59, so the rounded difference
\* is below it iff the exact difference is at most float(0.01) - 2^-60; the
\* rounding errors decide only when the decimals are exactly one cent apart
DiffBelowCent(hi, lo) ==
    IF hi - lo # 10 THEN hi - lo < 10
    ELSE CentTie(FloatRep(hi), FloatRep(lo), FloatRep(10))

\* abs(float(a/1000) - float(b/1000)) < float(0.01)
FloatDiffBelowCent(a, b) == DiffBelowCent(Max2(a, b), Min2(a, b))

(***************************************************************************)
(* datetime.strptime for formats made of %Y, %m, %d and literal            *)
(* characters.  A format is a sequence of tokens.  Python compiles it to   *)
(* a regular expression whose directives are ordered alternatives,         *)
(*   %Y  \d\d\d\d      %m  1[0-2]|0[1-9]|[1-9]                             *)
(*   %d  3[01]|[12]\d|0[1-9]|[1-9]| [1-9]                                  *)
(* matches it as a prefix, and raises ValueError when nothing matches,     *)
(* when data remains, or when the fields are no calendar date.             *)
(***************************************************************************)
FmtIso      == <<"%Y", "-", "%m", "-", "%d">>
FmtUsSlash  == <<"%m", "/", "%d", "/", "%Y">>
FmtDaySlash == <<"%d", "/", "%m", "/", "%Y">>
FmtIsoSlash == <<"%Y", "/", "%m", "/", "%d">>

TwoDigits(s) == Len(s) >= 2 /\ IsDigit(s[1]) /\ IsDigit(s[2])

TwoDigitsIn(s, lo, hi) ==
    /\ TwoDigits(s)
    /\ DigitVal(s[1]) * 10 + DigitVal(s[2]) >= lo
    /\ DigitVal(s[1]) * 10 + DigitVal(s[2]) <= hi

OneNonZero(s) == Len(s) >= 1 /\ IsDigit(s[1]) /\ s[1] # "0"

SpacePadded(s) == Len(s) >= 2 /\ s[1] = " " /\ IsDigit(s[2]) /\ s[2] # "0"

\* the ways token tok can match at the head of s, in the regex's order:
\* each the number of characters it takes
DirectiveTakes(tok, s) ==
    CASE tok = "%Y" -> IF Len(s) >= 4 /\ AllDigits(SubSeq(s, 1, 4)) THEN <<4>> ELSE <<>>
      [] tok = "%m" -> (IF TwoDigitsIn(s, 1, 12) THEN <<2>> ELSE <<>>)
                       \o (IF OneNonZero(s) THEN <<1>> ELSE <<>>)
      [] tok = "%d" -> (IF TwoDigitsIn(s, 1, 31) THEN <<2>> ELSE <<>>)
                       \o (IF OneNonZero(s) THEN <<1>> ELSE <<>>)
                       \o (IF SpacePadded(s) THEN <<2>> ELSE <<>>)
      [] OTHER -> IF Len(s) >= 1 /\ s[1] = tok THEN <<1>> ELSE <<>>

\* the fields with the text a directive matched recorded
WithField(acc, tok, text) ==
    CASE tok = "%Y" -> [acc EXCEPT !.Y = NatVal(text)]
      [] tok = "%m" -> [acc EXCEPT !.m = NatVal(text)]
      [] tok = "%d" -> [acc EXCEPT !.d = NatVal(Remove(text, <<" ">>))]
      [] OTHER -> acc

\* the first match of fmt as a prefix of s, with backtracking over the
\* alternatives: <<>> when there is none, else <<[Y, m, d, rest]>>
RECURSIVE RegexMatch(_, _, _)
RECURSIVE FirstTake(_, _, _, _)
RECURSIVE OrNextTake(_, _, _, _, _)

OrNextTake(r, takes, s, fmt, acc) ==
    IF r # <<>> THEN r ELSE FirstTake(Tail(takes), s, fmt, acc)

FirstTake(takes, s, fmt, acc) ==
    IF takes = <<>> THEN <<>>
    ELSE OrNextTake(RegexMatch(SubSeq(s, Head(takes) + 1, Len(s)), Tail(fmt),
                               WithField(acc, Head(fmt), SubSeq(s, 1, Head(takes)))),
                    takes, s, fmt, acc)

RegexMatch(s, fmt, acc) ==
    IF fmt = <<>> THEN << [Y |-> acc.Y, m |-> acc.m, d |-> acc.d, rest |-> s] >>
    ELSE FirstTake(DirectiveTakes(Head(fmt), s), s, fmt, acc)

IsLeap(y) == (y % 4 = 0 /\ y % 100 # 0) \/ y % 400 = 0

DaysInMonth(y, m) ==
    IF m = 2 THEN (IF IsLeap(y) THEN 29 ELSE 28)
    ELSE IF m \in {4, 6, 9, 11} THEN 30 ELSE 31

\* the calendar day year*10000 + month*100 + day
DayNumber(y, m, d) == y * 10000 + m * 100 + d

\* the date of a match: <<>> for ValueError, else <<day number>>
MatchedDate(r) ==
    IF r = <<>> THEN <<>>
    ELSE IF r[1].rest # <<>> THEN <<>>
    ELSE IF r[1].Y < 1 \/ r[1].d > DaysInMonth(r[1].Y, r[1].m) THEN <<>>
    ELSE << DayNumber(r[1].Y, r[1].m, r[1].d) >>

\* a missing directive defaults to 1900-01-01 as in _strptime
Strptime(s, fmt) == MatchedDate(RegexMatch(s, fmt, [Y |-> 1900, m |-> 1, d |-> 1]))

\* a datetime: calendar day and time-of-day slot (0 is midnight)
DateTime(day, slot) == day * TodSlots + slot
\* datetime.date()
DateOf(dt) == dt \div TodSlots

\* variant: the day-first slash format is tried before the month-first one
FallbackFormatsDayFirst == <<FmtIso, FmtDaySlash, FmtUsSlash, FmtIsoSlash>>

FallbackFormats == <<FmtIso, FmtUsSlash, FmtDaySlash, FmtIsoSlash>>

RECURSIVE TryFormats(_, _)
RECURSIVE OrNextFormat(_, _, _)

OrNextFormat(r, s, fmts) == IF r # <<>> THEN r ELSE TryFormats(s, fmts)

\* for fmt in [...]: try strptime; the for-else leaves <<>>
TryFormats(s, fmts) ==
    IF fmts = <<>> THEN <<>>
    ELSE OrNextFormat(Strptime(s, Head(fmts)), s, Tail(fmts))

AtMidnight(r) == IF r = <<>> THEN <<>> ELSE << DateTime(r[1], 0) >>

\* _parse_row, "Extract date": <<>> when the ValueError of line 426 is
\* raised, else <<the datetime at midnight>>
ParseDate(date_str, date_format) ==
    AtMidnight(OrNextFormat(Strptime(date_str, date_format), date_str, FallbackFormats))

(***************************************************************************)
(* Rows, mappings and configurations.                                      *)
(*   A row is what csv.DictReader yields: cells, a function from the       *)
(*   header's column names to Optional[str] (None where the line has       *)
(*   fewer cells than the header), and extra, whether the line has more    *)
(*   cells than the header (DictReader then stores the rest, a list,       *)
(*   under the key None).                                                  *)
(***************************************************************************)
BrazilianFormats == {"nubank", "nubank_investments", "clear", "clear_positions",
                     "xp", "xp_positions", "b3_cei"}

\* what row.get(column, "") returns, as [str |-> it is a str, s |-> the str]
RowGet(row, column) ==
    IF column = None
    THEN (IF row.extra THEN [str |-> FALSE, s |-> <<>>] ELSE [str |-> TRUE, s |-> <<>>])
    ELSE IF column[1] \in DOMAIN row.cells
         THEN (IF row.cells[column[1]] = None
               THEN [str |-> FALSE, s |-> <<>>]
               ELSE [str |-> TRUE, s |-> row.cells[column[1]][1]])
         ELSE [str |-> TRUE, s |-> <<>>]

\* an exception or an error message
Msg(kind, text, at, bound) == [kind |-> kind, text |-> text, at |-> at, bound |-> bound]

\* .strip() on None or on a list
AttributeError == Msg("AttributeError: object has no attribute 'strip'", <<>>, 0, 0)
\* TransactionPreview(raw_data=row) with the key None
ValidationError == Msg("ValidationError: raw_data key: Input should be a valid string", <<>>, 0, 0)
CouldNotParseDate(date_str) == Msg("Could not parse date", date_str, 0, 0)

\* word in s
Contains(s, word) == \E i \in 0..(Len(s) - Len(word)) : SubSeq(s, i + 1, i + Len(word)) = word

AnyIn(words, s) == \E i \in 1..Len(words) : Contains(s, words[i])

IsOneOf(s, words) == \E i \in 1..Len(words) : words[i] = s

(***************************************************************************)
(* CSVParserService._infer_type_from_value                                 *)
(***************************************************************************)
InferLowered(v) ==
    IF AnyIn(<< <<"b","u","y">>, <<"b","o","u","g","h","t">>, <<"p","u","r","c","h","a","s","e">>, <<"c","o","m","p","r","a">> >>, v) THEN "buy"
    ELSE IF AnyIn(<< <<"s","e","l","l">>, <<"s","o","l","d">>, <<"v","e","n","d","a">> >>, v) THEN "sell"
    ELSE IF AnyIn(<< <<"c","r","e","d","i","t">>, <<"d","e","p","o","s","i","t">>, <<"p","a","y","m","e","n","t"," ","r","e","c","e","i","v","e","d">>, <<"i","n","c","o","m","e">>, <<"r","e","f","u","n","d">>, <<"d","i","v","i","d","e","n","d">> >>, v) THEN "income"
    ELSE IF AnyIn(<< <<"d","e","b","i","t">>, <<"w","i","t","h","d","r","a","w","a","l">>, <<"p","a","y","m","e","n","t">>, <<"p","u","r","c","h","a","s","e">>, <<"e","x","p","e","n","s","e">> >>, v) THEN "expense"
    ELSE IF AnyIn(<< <<"t","r","a","n","s","f","e","r">>, <<"x","f","e","r">> >>, v) THEN "transfer"
    ELSE "expense"

_infer_type_from_value(type_value) == InferLowered(Lower(type_value))

\* _parse_row, operation column: the type for a stripped, lower-cased value
OperationType(op_value) ==
    IF IsOneOf(op_value, << <<"c">>, <<"c","o","m","p","r","a">>, <<"b","u","y">>, <<"b","o","u","g","h","t">>, <<"d","e","p","o","s","i","t">>, <<"c","o","n","t","r","i","b","u","t","i","o","n">> >>) THEN "buy"
    ELSE IF IsOneOf(op_value, << <<"v">>, <<"v","e","n","d","a">>, <<"s","e","l","l">>, <<"s","o","l","d">>, <<"w","i","t","h","d","r","a","w","a","l">> >>) THEN "sell"
    ELSE IF IsOneOf(op_value, << <<"d","i","v","i","d","e","n","d","o">>, <<"d","i","v","i","d","e","n","d">>, <<"j","c","p">>, <<"r","e","n","d","i","m","e","n","t","o">> >>) THEN "income"
    ELSE IF IsOneOf(op_value, << <<"t","r","a","n","s","f","e","r">>, <<"t","r","a","n","s","f","e","r","ê","n","c","i","a">> >>) THEN "transfer"
    ELSE "expense"

(***************************************************************************)
(* CSVParserService._check_duplicate: the first transaction of the         *)
(* collection on the same calendar day, with abs(tx.amount - amount) below *)
(* 0.01 in float arithmetic and the same lower-cased description.          *)
(* [is_duplicate, duplicate_reason]; the reason is the matched id.         *)
(***************************************************************************)
\* abs(nan) < 0.01 is false
AmountsMatch(a, b) == ~IsNaN(a) /\ ~IsNaN(b) /\ FloatDiffBelowCent(a, b)

SameDay(d1, d2) == DateOf(d1) = DateOf(d2)

SameDescription(s1, s2) == Lower(s1) = Lower(s2)

TxMatches(tx, description, amount, date) ==
    /\ SameDay(tx.date, date)
    /\ AmountsMatch(tx.amount, amount)
    /\ SameDescription(tx.description, description)

RECURSIVE _check_duplicate(_, _, _, _)
_check_duplicate(description, amount, date, existing_transactions) ==
    IF existing_transactions = <<>>
    THEN [is_duplicate |-> FALSE, duplicate_reason |-> None]
    ELSE IF TxMatches(Head(existing_transactions), description, amount, date)
    THEN [is_duplicate |-> TRUE, duplicate_reason |-> Some(Head(existing_transactions).id)]
    ELSE _check_duplicate(description, amount, date, Tail(existing_transactions))

(***************************************************************************)
(* CSVParserService._parse_row, statement by statement: each operator      *)
(* takes what the statements before it computed.                           *)
(***************************************************************************)
\* "Apply date range filter": [has_error, error_message]; the second test
\* overwrites the message of the first
\* variant: the start bound itself is taken to lie outside the range
AtOrBeforeStart(date, cfg) ==
    cfg.date_range_start # None /\ date <= cfg.date_range_start[1]

BeforeStart(date, cfg) ==
    cfg.date_range_start # None /\ date < cfg.date_range_start[1]

AfterEnd(date, cfg) ==
    cfg.date_range_end # None /\ date > cfg.date_range_end[1]

DateRangeFilter(date, cfg) ==
    IF AfterEnd(date, cfg)
    THEN [has_error |-> TRUE,
          error_message |-> Some(Msg("is after range end", <<>>, date, cfg.date_range_end[1]))]
    ELSE IF BeforeStart(date, cfg)
    THEN [has_error |-> TRUE,
          error_message |-> Some(Msg("is before range start", <<>>, date, cfg.date_range_start[1]))]
    ELSE [has_error |-> FALSE, error_message |-> None]

\* is_brazilian selects the parser
ParseNumber(cfg, str) ==
    IF cfg.bank_format \in BrazilianFormats
    THEN _parse_brazilian_amount(str) ELSE _parse_amount(str)

\* X = parse(x_str) if x_str else 0.0
CellNumber(cfg, str) == IF str # <<>> THEN ParseNumber(cfg, str) ELSE 0

\* the outcome of "Extract amount": the exception, or the amount handed to
\* _check_duplicate and the type
AmountRaised == [raised |-> TRUE, amount |-> 0, type |-> "expense"]
AmountIs(amount, type) == [raised |-> FALSE, amount |-> amount, type |-> type]

\* variant: the credit is tested before the debit
DebitCreditResultCreditFirst(debit, credit) ==
    IF ~IsNaN(credit) /\ credit > 0 THEN AmountIs(credit, "income")
    ELSE IF ~IsNaN(debit) /\ debit > 0 THEN AmountIs(debit, "expense")
    ELSE AmountIs(0, "expense")

DebitCreditResult(debit, credit) ==
    IF ~IsNaN(debit) /\ debit > 0 THEN AmountIs(debit, "expense")
    ELSE IF ~IsNaN(credit) /\ credit > 0 THEN AmountIs(credit, "income")
    ELSE AmountIs(0, "expense")

FromDebitCredit(cfg, dc, cc) ==
    IF ~dc.str \/ ~cc.str THEN AmountRaised
    ELSE DebitCreditResult(CellNumber(cfg, Strip(dc.s)), CellNumber(cfg, Strip(cc.s)))

WithOperation(amount, oc) ==
    IF ~oc.str THEN AmountRaised ELSE AmountIs(amount, OperationType(Lower(Strip(oc.s))))

WithType(amount, tc) ==
    IF ~tc.str THEN AmountRaised
    ELSE AmountIs(amount, _infer_type_from_value(Lower(Strip(tc.s))))

\* variant: the sign is read as if negative_means_expense were unset
BySignOfIncome(negative_means_expense, amount) ==
    AmountIs(Abs(amount), IF amount < 0 THEN "income" ELSE "expense")

\* variant: a zero amount is taken for a negative one
BySignZeroNegative(negative_means_expense, amount) ==
    AmountIs(Abs(amount),
             IF negative_means_expense
             THEN (IF amount <= 0 THEN "expense" ELSE "income")
             ELSE (IF amount <= 0 THEN "income" ELSE "expense"))

\* "Infer from amount sign", then amount = abs(amount)
BySign(negative_means_expense, amount) ==
    AmountIs(Abs(amount),
             IF negative_means_expense
             THEN (IF amount < 0 THEN "expense" ELSE "income")
             ELSE (IF amount < 0 THEN "income" ELSE "expense"))

\* variant: the type column is consulted before the operation column
TypedAmountTypeFirst(row, mapping, amount) ==
    IF mapping.type_column # None
    THEN WithType(amount, RowGet(row, mapping.type_column))
    ELSE IF mapping.operation_column # None
    THEN WithOperation(amount, RowGet(row, mapping.operation_column))
    ELSE BySign(mapping.negative_means_expense, amount)

TypedAmount(row, mapping, amount) ==
    IF mapping.operation_column # None
    THEN WithOperation(amount, RowGet(row, mapping.operation_column))
    ELSE IF mapping.type_column # None
    THEN WithType(amount, RowGet(row, mapping.type_column))
    ELSE BySign(mapping.negative_means_expense, amount)

FromAmount(row, cfg, ac) ==
    IF ~ac.str THEN AmountRaised
    ELSE TypedAmount(row, cfg.field_mapping, ParseNumber(cfg, Strip(ac.s)))

ResolveAmount(row, cfg) ==
    IF cfg.field_mapping.debit_column # None /\ cfg.field_mapping.credit_column # None
    THEN FromDebitCredit(cfg, RowGet(row, cfg.field_mapping.debit_column),
                              RowGet(row, cfg.field_mapping.credit_column))
    ELSE FromAmount(row, cfg, RowGet(row, cfg.field_mapping.amount_column))

\* TransactionPreview(...): pydantic validates raw_data as Dict[str, Any],
\* and the key None of a row with extra cells is no str
PreviewValidates(row) == ~row.extra

PlaceholderDescription == <<"I","m","p","o","r","t","e","d"," ","T","r","a","n","s","a","c","t","i","o","n">>

\* variant: the stripped cell is kept as it is
DescriptionKept(stripped) == stripped

DescriptionOf(stripped) == IF stripped = <<>> THEN PlaceholderDescription ELSE stripped

\* "Check for duplicates"
DuplicateCheck(cfg, description, amount, date, existing_transactions) ==
    IF cfg.skip_duplicates
    THEN _check_duplicate(description, amount, date, existing_transactions)
    ELSE [is_duplicate |-> FALSE, duplicate_reason |-> None]

\* the outcome of _parse_row: the exception raised or the TransactionPreview
Raise(e) == [exc |-> Some(e), tx |-> None]

Return(row_number, description, am, date, dup, rng) ==
    [exc |-> None,
     tx  |-> Some([row_number       |-> row_number,
                   description      |-> description,
                   amount           |-> Abs(am.amount),
                   type             |-> am.type,
                   date             |-> date,
                   is_duplicate     |-> dup.is_duplicate,
                   duplicate_reason |-> dup.duplicate_reason,
                   has_error        |-> rng.has_error,
                   error_message    |-> rng.error_message])]

RowFromAmount(row, row_number, cfg, existing_transactions, date, description, am) ==
    IF am.raised THEN Raise(AttributeError)
    ELSE IF ~PreviewValidates(row) THEN Raise(ValidationError)
    ELSE Return(row_number, description, am, date,
                DuplicateCheck(cfg, description, am.amount, date, existing_transactions),
                DateRangeFilter(date, cfg))

RowFromDescription(row, row_number, cfg, existing_transactions, date, desc) ==
    IF ~desc.str THEN Raise(AttributeError)
    ELSE RowFromAmount(row, row_number, cfg, existing_transactions, date,
                       DescriptionOf(Strip(desc.s)), ResolveAmount(row, cfg))

RowFromDate(row, row_number, cfg, existing_transactions, date_str, pdate) ==
    IF pdate = <<>> THEN Raise(CouldNotParseDate(date_str))
    ELSE RowFromDescription(row, row_number, cfg, existing_transactions, pdate[1],
                            RowGet(row, Some(cfg.field_mapping.description_column)))

RowFromDateCell(row, row_number, cfg, existing_transactions, dcell) ==
    IF ~dcell.str THEN Raise(AttributeError)
    ELSE RowFromDate(row, row_number, cfg, existing_transactions, Strip(dcell.s),
                     ParseDate(Strip(dcell.s), cfg.field_mapping.date_format))

_parse_row(row, row_number, cfg, existing_transactions) ==
    RowFromDateCell(row, row_number, cfg, existing_transactions,
                    RowGet(row, Some(cfg.field_mapping.date_column)))

(***************************************************************************)
(* CSVParserService.parse_csv_file                                         *)
(***************************************************************************)
ParseErrorDescription == <<"P","a","r","s","e"," ","E","r","r","o","r">>

\* the TransactionPreview of the except branch
ErrorPreview(idx, e, nowv) ==
    [row_number       |-> idx,
     description      |-> ParseErrorDescription,
     amount           |-> 0,
     type             |-> "expense",
     date             |-> nowv,
     is_duplicate     |-> FALSE,
     duplicate_reason |-> None,
     has_error        |-> TRUE,
     error_message    |-> Some(e)]

\* one pass of the loop body on the outcome r of _parse_row; acc.raised is
\* the exception that leaves parse_csv_file, if any
RowStep(acc, row, idx, r, nowv) ==
    IF r.exc = None
    THEN [acc EXCEPT
            !.transactions = Append(@, r.tx[1]),
            !.duplicate_count = IF r.tx[1].is_duplicate THEN @ + 1 ELSE @,
            !.error_count = IF r.tx[1].has_error THEN @ + 1 ELSE @]
    ELSE IF PreviewValidates(row)
    THEN [acc EXCEPT
            !.transactions = Append(@, ErrorPreview(idx, r.exc[1], nowv)),
            !.error_count = @ + 1]
    ELSE [acc EXCEPT !.raised = Some(ValidationError)]

\* for idx, row in enumerate(rows)
RECURSIVE ParseRows(_, _, _, _, _, _)
ParseRows(rows, idx, cfg, existing_transactions, nowv, acc) ==
    IF rows = <<>> \/ acc.raised # None THEN acc
    ELSE ParseRows(Tail(rows), idx + 1, cfg, existing_transactions, nowv,
                   RowStep(acc, Head(rows), idx,
                           _parse_row(Head(rows), idx, cfg, existing_transactions), nowv))

ValidDates(transactions) ==
    { transactions[i].date : i \in { j \in 1..Len(transactions) : ~transactions[j].has_error } }

MinOf(set) == CHOOSE x \in set : \A y \in set : x <= y
MaxOf(set) == CHOOSE x \in set : \A y \in set : x >= y

DateRange(dates) ==
    IF dates = {} THEN None ELSE Some([start |-> MinOf(dates), end |-> MaxOf(dates)])

\* variant: duplicates are left out of the valid rows
CountUnflagged(transactions) ==
    Cardinality({ i \in 1..Len(transactions) :
                    ~transactions[i].has_error /\ ~transactions[i].is_duplicate })

CountValid(transactions) ==
    Cardinality({ i \in 1..Len(transactions) : ~transactions[i].has_error })

\* variant: the last row is never skipped
SkipRowsButLast(rows, cfg) ==
    IF cfg.skip_rows >= Len(rows) THEN SubSeq(rows, Len(rows), Len(rows))
    ELSE SubSeq(rows, cfg.skip_rows + 1, Len(rows))

SkipRows(rows, cfg) ==
    IF cfg.skip_rows > 0 THEN SubSeq(rows, cfg.skip_rows + 1, Len(rows)) ELSE rows

EmptyPreview ==
    [total_rows |-> 0, valid_rows |-> 0, duplicate_rows |-> 0, error_rows |-> 0,
     transactions |-> <<>>, date_range |-> None]

\* "Calculate statistics" to the return
BuildPreview(total, acc) ==
    IF acc.raised # None THEN [exc |-> acc.raised, preview |-> None]
    ELSE [exc |-> None,
          preview |-> Some(
            [total_rows     |-> total,
             valid_rows     |-> CountValid(acc.transactions),
             duplicate_rows |-> acc.duplicate_count,
             error_rows     |-> acc.error_count,
             transactions   |-> acc.transactions,
             date_range     |-> DateRange(ValidDates(acc.transactions))])]

ParseData(data, cfg, existing_transactions, nowv) ==
    BuildPreview(Len(data),
                 ParseRows(data, 0, cfg, existing_transactions, nowv,
                           [transactions |-> <<>>, duplicate_count |-> 0,
                            error_count |-> 0, raised |-> None]))

\* [exc |-> the exception the call raises, preview |-> the CSVImportPreview]
parse_csv_file(rows, cfg, existing_transactions, nowv) ==
    IF rows = <<>> THEN [exc |-> None, preview |-> Some(EmptyPreview)]
    ELSE ParseData(SkipRows(rows, cfg), cfg, existing_transactions, nowv)

(***************************************************************************)
(* CSVParserService.create_transactions_from_preview                       *)
(***************************************************************************)
TransactionCreate(tx_preview) ==
    [description |-> tx_preview.description,
     amount      |-> tx_preview.amount,
     type        |-> tx_preview.type,
     date        |-> tx_preview.date]

SkippedAsDuplicate(tx_preview, skip_duplicates) == skip_duplicates /\ tx_preview.is_duplicate

SkippedAsError(tx_preview, skip_errors) == skip_errors /\ tx_preview.has_error

\* variant: an empty selection is read as no selection
NotSelectedOfNonEmpty(tx_preview, selected_rows) ==
    /\ selected_rows # None
    /\ selected_rows[1] # {}
    /\ tx_preview.row_number \notin selected_rows[1]

NotSelected(tx_preview, selected_rows) ==
    selected_rows # None /\ tx_preview.row_number \notin selected_rows[1]

\* the loop body: the list with the row appended unless a test continues
CreateStep(transactions, tx_preview, skip_duplicates, skip_errors, selected_rows) ==
    IF SkippedAsDuplicate(tx_preview, skip_duplicates) THEN transactions
    ELSE IF SkippedAsError(tx_preview, skip_errors) THEN transactions
    ELSE IF NotSelected(tx_preview, selected_rows) THEN transactions
    ELSE Append(transactions, TransactionCreate(tx_preview))

RECURSIVE CreateLoop(_, _, _, _, _)
CreateLoop(txs, transactions, skip_duplicates, skip_errors, selected_rows) ==
    IF txs = <<>> THEN transactions
    ELSE CreateLoop(Tail(txs),
                    CreateStep(transactions, Head(txs), skip_duplicates, skip_errors,
                               selected_rows),
                    skip_duplicates, skip_errors, selected_rows)

create_transactions_from_preview(preview, skip_duplicates, skip_errors, selected_rows) ==
    CreateLoop(preview.transactions, <<>>, skip_duplicates, skip_errors, selected_rows)

(***************************************************************************)
(* Inputs of the model.                                                    *)
(***************************************************************************)
Jan05 == DayNumber(2024, 1, 5)
Jan07 == DayNumber(2024, 1, 7)

\* header Date,Description,Amount with the mapping that names its columns
GenericMapping(negative_means_expense) ==
    [date_column |-> "Date", description_column |-> "Description",
     amount_column |-> Some("Amount"), debit_column |-> None, credit_column |-> None,
     type_column |-> None, operation_column |-> None,
     date_format |-> FmtIso, negative_means_expense |-> negative_means_expense]

\* a well-formed row, its case and sign variant one cent away, a row in a
\* fallback date format, a row that is no calendar date, a line with fewer
\* cells than the header, a line with more
RowCoffee ==
    [cells |-> [Date |-> Some(<<"2","0","2","4","-","0","1","-","0","5">>),
                Description |-> Some(<<"C","o","f","f","e","e"," ","S","h","o","p">>),
                Amount |-> Some(<<"-","4",".","5","0">>)],
     extra |-> FALSE]
RowCoffeeCent ==
    [cells |-> [Date |-> Some(<<"2","0","2","4","-","0","1","-","0","5">>),
                Description |-> Some(<<" ","c","o","f","f","e","e"," ","s","h","o","p"," ">>),
                Amount |-> Some(<<"$","4",".","5","1">>)],
     extra |-> FALSE]
RowTea ==
    [cells |-> [Date |-> Some(<<"0","1","/","0","7","/","2","0","2","4">>),
                Description |-> Some(<<"T","e","a">>),
                Amount |-> Some(<<"1","2",".","0","0">>)],
     extra |-> FALSE]
RowBadDate ==
    [cells |-> [Date |-> Some(<<"2","0","2","4","-","0","2","-","3","0">>),
                Description |-> Some(<<"T","e","a">>),
                Amount |-> Some(<<"1","2",".","0","0">>)],
     extra |-> FALSE]
RowShort ==
    [cells |-> [Date |-> Some(<<"2","0","2","4","-","0","1","-","0","5">>),
                Description |-> Some(<<"T","e","a">>),
                Amount |-> None],
     extra |-> FALSE]
RowLong ==
    [cells |-> [Date |-> Some(<<"2","0","2","4","-","0","1","-","0","5">>),
                Description |-> Some(<<"C","o","f","f","e","e"," ","S","h","o","p">>),
                Amount |-> Some(<<"-","4",".","5","0">>)],
     extra |-> TRUE]

RowSet == {RowCoffee, RowCoffeeCent, RowTea, RowBadDate, RowShort, RowLong}

RECURSIVE SeqsUpTo(_, _)
SeqsUpTo(set, n) ==
    IF n = 0 THEN { <<>> }
    ELSE LET shorter == SeqsUpTo(set, n - 1)
         IN  shorter \cup { Append(q, x) : q \in { p \in shorter : Len(p) = n - 1 }, x \in set }

Files == SeqsUpTo(RowSet, MaxRows)

TxCoffee == [id |-> 1, description |-> <<"C","O","F","F","E","E"," ","S","H","O","P">>, amount |-> 4500,
             date |-> DateTime(Jan05, 1)]
TxTea    == [id |-> 2, description |-> <<"T","e","a">>, amount |-> 12000,
             date |-> DateTime(Jan07, 0)]
TxCoffeeCent == [id |-> 3, description |-> <<"C","o","f","f","e","e"," ","S","h","o","p">>, amount |-> 4510,
             date |-> DateTime(Jan05, 0)]

ExistingChoices == { <<>>, <<TxCoffee>>, <<TxTea, TxCoffee>> }

RangeChoices ==
    { [start |-> None, end |-> None],
      [start |-> Some(DateTime(Jan05, 0)), end |-> Some(DateTime(Jan05, 0))],
      [start |-> Some(DateTime(Jan05, 1)), end |-> None] }

Configs ==
    { [bank_format |-> "generic",
       field_mapping |-> GenericMapping(nme),
       skip_rows |-> sr,
       skip_duplicates |-> sd,
       date_range_start |-> rg.start,
       date_range_end |-> rg.end] :
      nme \in BOOLEAN, sr \in 0..1, sd \in BOOLEAN, rg \in RangeChoices }

SelectedChoices == { None, Some({}), Some({0}), Some({1, 2}) }

NowStart == DateTime(DayNumber(2026, 1, 1), 0)

\* arguments of direct _check_duplicate calls
CandidateSet ==
    { [description |-> d, amount |-> a, date |-> t] :
      d \in { <<"C","o","f","f","e","e"," ","S","h","o","p">>, <<"T","e","a">> },
      a \in { 4500, 4501, 4509, 4510, 4519, 4520, 12000 },
      t \in { DateTime(Jan05, 0), DateTime(Jan05, 1), DateTime(Jan07, 0) } }

MaxExisting == 2

StoredSets == SeqsUpTo({TxCoffee, TxTea, TxCoffeeCent}, MaxExisting)

(***************************************************************************)
(* The import service: previews, then a commit.                            *)
(***************************************************************************)
Init ==
    /\ file \in Files
    /\ config \in Configs
    /\ existing \in ExistingChoices
    /\ now = NowStart
    /\ callsLeft = 1
    /\ previews = <<>>
    /\ created = None
    /\ cand = None
    /\ dupResult = None
    /\ arg = None
    /\ result = None
    /\ api = None

\* a call parse_csv_file(file_content, config, existing_transactions)
ParseCsvFile ==
    /\ callsLeft > 0
    /\ previews' = Append(previews, parse_csv_file(file, config, existing, now))
    /\ callsLeft' = callsLeft - 1
    /\ UNCHANGED <<file, config, existing, now, created, cand, dupResult, arg, result, api>>

LastPreview == previews[Len(previews)].preview[1]

\* a call create_transactions_from_preview on the preview last returned
\* (one commit per run of the model)
CreateTransactionsFromPreview(skip_duplicates, skip_errors, selected_rows) ==
    /\ previews # <<>>
    /\ previews[Len(previews)].exc = None
    /\ created = None
    /\ created' = Some([skip_duplicates |-> skip_duplicates,
                        skip_errors |-> skip_errors,
                        selected_rows |-> selected_rows,
                        records |-> create_transactions_from_preview(
                                      LastPreview, skip_duplicates, skip_errors, selected_rows)])
    /\ UNCHANGED <<file, config, existing, now, callsLeft, previews, cand, dupResult,
                 arg, result, api>>

Next ==
    \/ ParseCsvFile
    \/ \E sd \in BOOLEAN, se \in BOOLEAN, sel \in SelectedChoices :
          CreateTransactionsFromPreview(sd, se, sel)

Spec == Init /\ [][Next]_vars

(***************************************************************************)
(* Repeated previews of the same inputs while the wall clock advances.     *)
(***************************************************************************)
InitIdem ==
    /\ file \in Files
    /\ config \in Configs
    /\ existing \in ExistingChoices
    /\ now = NowStart
    /\ callsLeft = MaxCalls
    /\ previews = <<>>
    /\ created = None
    /\ cand = None
    /\ dupResult = None
    /\ arg = None
    /\ result = None
    /\ api = None

\* time passes between calls
Tick ==
    /\ now < NowStart + MaxClock
    /\ now' = now + 1
    /\ UNCHANGED <<file, config, existing, callsLeft, previews, created, cand, dupResult,
                 arg, result, api>>

NextIdem == Tick \/ ParseCsvFile

SpecIdem == InitIdem /\ [][NextIdem]_vars

(***************************************************************************)
(* Direct calls of _check_duplicate.                                       *)
(***************************************************************************)
InitDup ==
    /\ file = <<>>
    /\ config \in { c \in Configs : c.skip_rows = 0 /\ c.skip_duplicates
                                     /\ c.date_range_start = None
                                     /\ c.field_mapping.negative_means_expense }
    /\ existing \in StoredSets
    /\ now = NowStart
    /\ callsLeft = 0
    /\ previews = <<>>
    /\ created = None
    /\ cand \in { Some(c) : c \in CandidateSet }
    /\ dupResult = None
    /\ arg = None
    /\ result = None
    /\ api = None

CheckDuplicate ==
    /\ cand # None
    /\ dupResult = None
    /\ dupResult' = Some(_check_duplicate(cand[1].description, cand[1].amount,
                                          cand[1].date, existing))
    /\ UNCHANGED <<file, config, existing, now, callsLeft, previews, created, cand,
                 arg, result, api>>

NextDup == CheckDuplicate

SpecDup == InitDup /\ [][NextDup]_vars

(***************************************************************************)
(* Properties of the previews and of the commit.                           *)
(***************************************************************************)
\* rows[skip_rows:] of the file previewed
DataRows == SubSeq(file, config.skip_rows + 1, Len(file))

Returned(k) == previews[k].exc = None

\* C1: every preview parse_csv_file returns has
\* valid_rows + error_rows = total_rows, and total_rows is both the number
\* of data rows left after skip_rows and the length of preview.transactions.
C1_RowCount ==
    \A k \in 1..Len(previews) :
        Returned(k) =>
            /\ previews[k].preview[1].valid_rows + previews[k].preview[1].error_rows
                  = previews[k].preview[1].total_rows
            /\ previews[k].preview[1].total_rows = Len(DataRows)
            /\ previews[k].preview[1].total_rows = Len(previews[k].preview[1].transactions)

\* a preview of two rows, one an error row, the other valid and a duplicate
C1_Witness ==
    /\ previews # <<>>
    /\ Returned(1)
    /\ previews[1].preview[1].total_rows = 2
    /\ previews[1].preview[1].error_rows = 1
    /\ previews[1].preview[1].valid_rows = 1
    /\ previews[1].preview[1].duplicate_rows = 1

\* C2: in every preview parse_csv_file returns duplicate_rows <= valid_rows,
\* and no TransactionPreview has both is_duplicate and has_error set, a row
\* that matches an existing transaction and lies outside the date range
\* included.
C2_DuplicatesAreValid ==
    \A k \in 1..Len(previews) :
        Returned(k) =>
            /\ previews[k].preview[1].duplicate_rows <= previews[k].preview[1].valid_rows
            /\ \A i \in 1..Len(previews[k].preview[1].transactions) :
                  ~(/\ previews[k].preview[1].transactions[i].is_duplicate
                    /\ previews[k].preview[1].transactions[i].has_error)

\* C3: create_transactions_from_preview(preview, skip_duplicates=True,
\* skip_errors=True, selected_rows=None) returns exactly
\* preview.valid_rows - preview.duplicate_rows records.
C3_CommitSubsetLaw ==
    (/\ created # None
     /\ created[1].skip_duplicates
     /\ created[1].skip_errors
     /\ created[1].selected_rows = None)
    => Len(created[1].records) = LastPreview.valid_rows - LastPreview.duplicate_rows

\* the three filters of the commit, each on its own
PassesFilters(tx_preview, skip_duplicates, skip_errors, selected_rows) ==
    /\ ~(skip_duplicates /\ tx_preview.is_duplicate)
    /\ ~(skip_errors /\ tx_preview.has_error)
    /\ (selected_rows = None \/ tx_preview.row_number \in selected_rows[1])

\* the rows of the last preview that pass the filters of the commit made
KeptRows ==
    LET Passes(tx_preview) ==
            PassesFilters(tx_preview, created[1].skip_duplicates,
                          created[1].skip_errors, created[1].selected_rows)
    IN  SelectSeq(LastPreview.transactions, Passes)

SameRecords(records, kept) ==
    /\ Len(records) = Len(kept)
    /\ \A i \in 1..Len(kept) : records[i] = TransactionCreate(kept[i])

\* C4: create_transactions_from_preview returns one record for exactly the
\* preview rows that pass the three independent filters (not a skipped
\* duplicate, not a skipped error, selected when a selection is given), in
\* the order of preview.transactions; an empty selection gives an empty list.
C4_CommitFilters ==
    created # None =>
        /\ SameRecords(created[1].records, KeptRows)
        /\ created[1].selected_rows = Some({}) => created[1].records = <<>>

\* a commit that drops one row for each reason is not in reach of two rows;
\* here the selection drops a clean row 0 and keeps row 1
C4_Witness ==
    /\ created # None
    /\ Len(LastPreview.transactions) = 2
    /\ ~LastPreview.transactions[1].is_duplicate
    /\ ~LastPreview.transactions[1].has_error
    /\ created[1].selected_rows = Some({1, 2})
    /\ Len(created[1].records) = 1

\* the same, for an empty selection over clean rows
C4_WitnessEmptySelection ==
    /\ created # None
    /\ Len(LastPreview.transactions) = 2
    /\ LastPreview.valid_rows = 2
    /\ created[1].selected_rows = Some({})
    /\ created[1].records = <<>>

\* the file of two identical rows, previewed with negative_means_expense and
\* skip_duplicates and nothing persisted
CoffeeTwice ==
    /\ file = <<RowCoffee, RowCoffee>>
    /\ config.field_mapping.negative_means_expense
    /\ config.skip_duplicates
    /\ config.skip_rows = 0
    /\ config.date_range_start = None
    /\ config.date_range_end = None
    /\ existing = <<>>
    /\ previews # <<>>

BothExpenseOf450 ==
    \A i \in 1..Len(LastPreview.transactions) :
        /\ LastPreview.transactions[i].type = "expense"
        /\ LastPreview.transactions[i].amount = 4500

CommitSkippingDuplicates ==
    created # None /\ created[1].skip_duplicates /\ created[1].selected_rows = None

\* C5 as stated: the second of the two identical rows is counted as a
\* duplicate of the first (duplicate_rows = 1) and the commit with
\* skip_duplicates gives one record.
C5_AsStated ==
    CoffeeTwice =>
        /\ LastPreview.total_rows = 2
        /\ LastPreview.valid_rows = 2
        /\ LastPreview.duplicate_rows = 1
        /\ BothExpenseOf450
        /\ CommitSkippingDuplicates => Len(created[1].records) = 1

\* C5: the file of two identical rows (2024-01-05, Coffee Shop, -4.50) with
\* negative_means_expense and skip_duplicates and no persisted transactions
\* gives total_rows = 2, valid_rows = 2, duplicate_rows = 0, both rows
\* expense 4.50 and neither flagged; the commit with skip_duplicates gives
\* two records: rows are compared with the persisted set only.
C5_RepeatedRowNotFlagged ==
    CoffeeTwice =>
        /\ LastPreview.total_rows = 2
        /\ LastPreview.valid_rows = 2
        /\ LastPreview.duplicate_rows = 0
        /\ BothExpenseOf450
        /\ \A i \in 1..Len(LastPreview.transactions) :
              ~LastPreview.transactions[i].is_duplicate
        /\ CommitSkippingDuplicates => Len(created[1].records) = 2

C5_Witness ==
    /\ CoffeeTwice
    /\ CommitSkippingDuplicates
    /\ Len(created[1].records) = 2

(***************************************************************************)
(* Properties of the date range filter and of failing rows.                *)
(***************************************************************************)
\* the date _parse_row parses from a row before anything else: <<>> when
\* the cell is missing or is no date
DateOfCell(dcell) ==
    IF dcell.str THEN ParseDate(Strip(dcell.s), config.field_mapping.date_format) ELSE <<>>

ParsedDateOf(row) == DateOfCell(RowGet(row, Some(config.field_mapping.date_column)))

BeforeRangeStart(date) ==
    config.date_range_start # None /\ date < config.date_range_start[1]

AfterRangeEnd(date) ==
    config.date_range_end # None /\ date > config.date_range_end[1]

OnRangeBound(date) ==
    \/ config.date_range_start # None /\ date = config.date_range_start[1]
    \/ config.date_range_end # None /\ date = config.date_range_end[1]

\* the message names the bound the date violates
NamesViolatedBound(tx_preview, date) ==
    /\ tx_preview.error_message # None
    /\ \/ /\ AfterRangeEnd(date)
          /\ tx_preview.error_message[1].kind = "is after range end"
          /\ tx_preview.error_message[1].bound = config.date_range_end[1]
       \/ /\ BeforeRangeStart(date)
          /\ tx_preview.error_message[1].kind = "is before range start"
          /\ tx_preview.error_message[1].bound = config.date_range_start[1]

\* error_rows and valid_rows count the rows with and without has_error
CountsFollowFlags(preview) ==
    /\ preview.error_rows =
          Cardinality({ i \in 1..Len(preview.transactions) : preview.transactions[i].has_error })
    /\ preview.valid_rows =
          Cardinality({ i \in 1..Len(preview.transactions) : ~preview.transactions[i].has_error })

RangeConfigured == config.date_range_start # None \/ config.date_range_end # None

\* the rule on a row with a parsed date: outside the range it is an error;
\* the message of the bound and the bound case are stated of a row that
\* _parse_row returns (a row that raises after its date was parsed is an
\* error row with the text of the exception)
RangeRule(tx_preview, date, raised) ==
    IF BeforeRangeStart(date) \/ AfterRangeEnd(date)
    THEN tx_preview.has_error /\ (NamesViolatedBound(tx_preview, date) \/ raised)
    ELSE OnRangeBound(date) => (~tx_preview.has_error \/ raised)

RowRangeRule(tx_preview, pdate, row, idx) ==
    pdate # <<>> =>
        RangeRule(tx_preview, pdate[1], _parse_row(row, idx, config, existing).exc # None)

\* C6: with a date range configured, every row whose parsed date is before
\* the start or after the end still appears in preview.transactions with
\* has_error set and is counted in error_rows, not in valid_rows; the
\* message of a row that _parse_row returns names the violated bound, and
\* such a row dated on a bound is no error (the comparisons are strict).
C6_DateRangeIsAnError ==
    \A k \in 1..Len(previews) :
        (Returned(k) /\ RangeConfigured) =>
            /\ Len(previews[k].preview[1].transactions) = Len(DataRows)
            /\ CountsFollowFlags(previews[k].preview[1])
            /\ \A i \in 1..Len(DataRows) :
                  RowRangeRule(previews[k].preview[1].transactions[i],
                               ParsedDateOf(DataRows[i]), DataRows[i], i - 1)

\* a first row dated on both bounds and free of error, a second row after
\* the end and flagged with that bound
C6_Witness ==
    /\ previews # <<>>
    /\ Returned(1)
    /\ Len(DataRows) = 2
    /\ config.date_range_start # None
    /\ config.date_range_end # None
    /\ ParsedDateOf(DataRows[1]) = config.date_range_start
    /\ ParsedDateOf(DataRows[1]) = config.date_range_end
    /\ ~previews[1].preview[1].transactions[1].has_error
    /\ previews[1].preview[1].transactions[2].has_error
    /\ previews[1].preview[1].transactions[2].error_message[1].kind = "is after range end"
    /\ previews[1].preview[1].error_rows = 1
    /\ previews[1].preview[1].valid_rows = 1

\* the entry of a row against what _parse_row alone makes of the row
EntryIsolated(tx_preview, r) ==
    IF r.exc = None THEN tx_preview = r.tx[1]
    ELSE tx_preview.has_error /\ tx_preview.error_message = r.exc

\* C7: a row whose parsing raises never aborts parse_csv_file: the preview
\* is returned with one entry per data row, the entry of a failing row has
\* has_error set and the exception text as error_message, and every other
\* entry is what the row parses to on its own.
C7_RowFailuresIsolated ==
    \A k \in 1..Len(previews) :
        /\ Returned(k)
        /\ Len(previews[k].preview[1].transactions) = Len(DataRows)
        /\ \A i \in 1..Len(DataRows) :
              EntryIsolated(previews[k].preview[1].transactions[i],
                            _parse_row(DataRows[i], i - 1, config, existing))

\* C8: two calls of parse_csv_file with the same file, config and existing
\* set return the same preview, whatever the wall-clock time of each call.
C8_IdempotentPreview ==
    \A j \in 1..Len(previews) : \A k \in 1..Len(previews) : previews[j] = previews[k]

(***************************************************************************)
(* Properties of _check_duplicate, amounts taken as the decimal numbers    *)
(* the rows and the stored transactions spell.                             *)
(***************************************************************************)
DecimalMatch(tx, candidate) ==
    /\ DateOf(tx.date) = DateOf(candidate.date)
    /\ tx.amount - candidate.amount < 10
    /\ candidate.amount - tx.amount < 10
    /\ Lower(tx.description) = Lower(candidate.description)

MatchingIndexes == { i \in 1..Len(existing) : DecimalMatch(existing[i], cand[1]) }

FirstMatchResult(indexes) ==
    IF indexes = {}
    THEN [is_duplicate |-> FALSE, duplicate_reason |-> None]
    ELSE [is_duplicate |-> TRUE,
          duplicate_reason |-> Some(existing[CHOOSE i \in indexes :
                                               \A j \in indexes : i <= j].id)]

\* C9: _check_duplicate returns (True, reason) iff some existing transaction
\* has the candidate's calendar day, an amount differing by less than 0.01
\* and the candidate's description up to letter case; the reason names the
\* id of the first such transaction; otherwise it returns (False, None).
C9_DuplicateRule ==
    dupResult # None => dupResult[1] = FirstMatchResult(MatchingIndexes)

\* C10: given the same date and description, a candidate whose amount is
\* exactly 0.01 from the existing amount is not flagged duplicate, and one
\* that is 0.009 from it is flagged.
C10_ToleranceBoundary ==
    (/\ dupResult # None
     /\ Len(existing) = 1
     /\ existing[1].date = cand[1].date
     /\ existing[1].description = cand[1].description)
    => /\ Abs(existing[1].amount - cand[1].amount) = 10 => ~dupResult[1].is_duplicate
       /\ Abs(existing[1].amount - cand[1].amount) = 9 => dupResult[1].is_duplicate

(***************************************************************************)
(* Direct calls of the two amount parsers, results in millionths.          *)
(***************************************************************************)
BrazilianLiteral == <<"1",".","2","3","4",",","5","6">>
AnglophoneLiteral == <<"1",",","2","3","4",".","5","6">>

AmountBodies ==
    { BrazilianLiteral, AnglophoneLiteral,
      <<"1",".","2","3","4">>,
      <<"1",",","2","3","4">>,
      <<"1","2",",","5">>,
      <<"1","2",".","5">>,
      <<"7">>,
      <<"a","b","c">> }

\* the currency symbols and codes of _parse_amount
CurrencySymbols == { AmountSymbols[j] : j \in 1..8 }

CurrencyBodies == { <<"1","2",".","5">>, <<"7">> }

\* the empty string, blanks, two decimal points, a sign alone, not-a-number
AmountOddities ==
    { <<>>, <<" "," ">>, <<"1","2",".","5",".","1">>, <<"-">>, <<"n","a","n">> }

\* a body as it stands, negated, with a currency symbol, in parentheses; a
\* number with each symbol or code before it and after it
AmountStrings ==
    AmountBodies
    \cup AmountOddities
    \cup { sym \o b : sym \in CurrencySymbols, b \in CurrencyBodies }
    \cup { b \o sym : sym \in CurrencySymbols, b \in CurrencyBodies }
    \cup { <<"-">> \o b : b \in AmountBodies }
    \cup { <<"$">> \o b : b \in AmountBodies }
    \cup { <<"R", "$", " ">> \o b : b \in AmountBodies }
    \cup { <<"(">> \o b \o <<")">> : b \in AmountBodies }

InitAmounts ==
    /\ file = <<>>
    /\ config \in { c \in Configs : c.skip_rows = 0 /\ c.skip_duplicates
                                     /\ c.date_range_start = None
                                     /\ c.field_mapping.negative_means_expense }
    /\ existing = <<>>
    /\ now = NowStart
    /\ callsLeft = 0
    /\ previews = <<>>
    /\ created = None
    /\ cand = None
    /\ dupResult = None
    /\ arg \in { Some(s) : s \in AmountStrings }
    /\ result = [anglophone |-> None, brazilian |-> None]
    /\ api = None

\* a call _parse_amount(arg)
ParseAmount ==
    /\ result.anglophone = None
    /\ result' = [result EXCEPT !.anglophone = Some(ParseAmountAt(arg[1], 6))]
    /\ UNCHANGED <<file, config, existing, now, callsLeft, previews, created, cand, dupResult,
                   arg, api>>

\* a call _parse_brazilian_amount(arg)
ParseBrazilianAmount ==
    /\ result.brazilian = None
    /\ result' = [result EXCEPT !.brazilian = Some(ParseBrazilianAmountAt(arg[1], 6))]
    /\ UNCHANGED <<file, config, existing, now, callsLeft, previews, created, cand, dupResult,
                   arg, api>>

NextAmounts == ParseAmount \/ ParseBrazilianAmount

SpecAmounts == InitAmounts /\ [][NextAmounts]_vars

\* 1234.56 in millionths
C11_Expected == 1234560 * 1000

\* C11: _parse_brazilian_amount("1.234,56") and _parse_amount("1,234.56")
\* both equal 1234.56, and each parser on the other dialect's string
\* returns a value different from 1234.56.
C11_LocaleParsing ==
    /\ (arg = Some(BrazilianLiteral) /\ result.brazilian # None)
          => result.brazilian[1] = C11_Expected
    /\ (arg = Some(AnglophoneLiteral) /\ result.anglophone # None)
          => result.anglophone[1] = C11_Expected
    /\ (arg = Some(BrazilianLiteral) /\ result.anglophone # None)
          => result.anglophone[1] # C11_Expected
    /\ (arg = Some(AnglophoneLiteral) /\ result.brazilian # None)
          => result.brazilian[1] # C11_Expected

\* both parsers have run on "1.234,56"
C11_Witness ==
    /\ arg = Some(BrazilianLiteral)
    /\ result.brazilian = Some(C11_Expected)
    /\ result.anglophone # None
    /\ result.anglophone # Some(C11_Expected)

(***************************************************************************)
(* Previews and re-imports under every shape of FieldMapping.              *)
(***************************************************************************)
MaxSkip == 2

\* a row of a file with the header
\* Date,Description,Amount,Debit,Credit,Type,Operation
ShapeRow(amount, debit, credit, type, operation) ==
    [cells |-> [Date |-> Some(<<"2","0","2","4","-","0","1","-","0","5">>),
                Description |-> Some(<<"C","o","f","f","e","e"," ","S","h","o","p">>),
                Amount |-> Some(amount),
                Debit |-> Some(debit),
                Credit |-> Some(credit),
                Type |-> Some(type),
                Operation |-> Some(operation)],
     extra |-> FALSE]

ShapeAmounts == { <<"-","4",".","5","0">>, <<"4",".","5","0">>, <<"0",".","0","0">>, <<"N","a","N">> }
ShapeDebits == { <<>>, <<"5",".","0","0">>, <<"-","5",".","0","0">> }
ShapeCredits == { <<>>, <<"7",".","0","0">> }
ShapeTypes == { <<"C","r","e","d","i","t">>, <<"D","E","B","I","T">> }
ShapeOperations == { <<"C","o","m","p","r","a">>, <<"V">>, <<"T","R","A","N","S","F","E","R","Ê","N","C","I","A">>,
                     <<"D","i","v","i","d","e","n","d">>, <<"o","t","h","e","r">> }

ShapeRows ==
    { ShapeRow(a, d, c, t, o) :
        a \in ShapeAmounts, d \in ShapeDebits, c \in ShapeCredits,
        t \in ShapeTypes, o \in ShapeOperations }

\* a FieldMapping over that header
ShapeMapping(amount_column, debit_column, credit_column, type_column, operation_column,
             negative_means_expense) ==
    [date_column |-> "Date", description_column |-> "Description",
     amount_column |-> amount_column, debit_column |-> debit_column,
     credit_column |-> credit_column, type_column |-> type_column,
     operation_column |-> operation_column,
     date_format |-> FmtIso, negative_means_expense |-> negative_means_expense]

\* amount by sign; debit and credit, alone and next to type and operation
\* columns; amount with operation, with type, with
\* both; no amount path (nothing, or a debit column alone)
ShapeMappings ==
    { ShapeMapping(Some("Amount"), None, None, None, None, nme) : nme \in BOOLEAN }
    \cup { ShapeMapping(Some("Amount"), Some("Debit"), Some("Credit"), None, None, TRUE) }
    \cup { ShapeMapping(Some("Amount"), Some("Debit"), Some("Credit"), Some("Type"), Some("Operation"), TRUE) }
    \cup { ShapeMapping(Some("Amount"), None, None, None, Some("Operation"), nme) : nme \in BOOLEAN }
    \cup { ShapeMapping(Some("Amount"), None, None, Some("Type"), None, TRUE) }
    \cup { ShapeMapping(Some("Amount"), None, None, Some("Type"), Some("Operation"), TRUE) }
    \cup { ShapeMapping(None, None, None, None, None, nme) : nme \in BOOLEAN }
    \cup { ShapeMapping(None, Some("Debit"), None, None, None, TRUE) }

ShapeConfigs ==
    { [bank_format |-> "generic",
       field_mapping |-> m,
       skip_rows |-> sr,
       skip_duplicates |-> TRUE,
       date_range_start |-> None,
       date_range_end |-> None] :
      m \in ShapeMappings, sr \in 0..MaxSkip }

InitShapes ==
    /\ file \in SeqsUpTo(ShapeRows \cup {RowBadDate, RowShort}, 1)
    /\ config \in ShapeConfigs
    /\ existing = <<>>
    /\ now = NowStart
    /\ callsLeft = 2
    /\ previews = <<>>
    /\ created = None
    /\ cand = None
    /\ dupResult = None
    /\ arg = None
    /\ result = None
    /\ api = None

\* the Transaction stored for a create-record, under the next id
Transaction(id, tx_create) ==
    [id |-> id, description |-> tx_create.description, amount |-> tx_create.amount,
     date |-> tx_create.date]

\* the records of the first commit are persisted, once: one transaction each
Persist ==
    /\ created # None
    /\ created[1].records # <<>>
    /\ Len(previews) = 1
    /\ existing = <<>>
    /\ existing' = existing \o [i \in 1..Len(created[1].records) |->
                                   Transaction(Len(existing) + i, created[1].records[i])]
    /\ created' = None
    /\ UNCHANGED <<file, config, now, callsLeft, previews, cand, dupResult, arg, result, api>>

NextShapes ==
    \/ ParseCsvFile
    \/ CreateTransactionsFromPreview(TRUE, TRUE, None)
    \/ Persist

SpecShapes == InitShapes /\ [][NextShapes]_vars

(***************************************************************************)
(* Properties of the mapping shapes (SpecShapes).                          *)
(***************************************************************************)
DebitCreditMode ==
    config.field_mapping.debit_column # None /\ config.field_mapping.credit_column # None

\* the number in a debit or credit cell of a data row
ShapeCell(row, column) == CellNumber(config, Strip(RowGet(row, column).s))

DebitBranch(tx, debit, credit) ==
    (debit # 0 /\ credit # 0 /\ ~tx.has_error) =>
        (tx.type = "expense" /\ tx.amount \in {debit, 0 - debit} /\ tx.amount >= 0)

\* C12: with debit_column and credit_column both configured, a row whose
\* debit and credit are both non-zero resolves to the debit branch: type
\* expense, amount the magnitude of the debit, also for a negative debit next
\* to a positive credit.
C12_DebitBranchFirst ==
    \A k \in 1..Len(previews) :
        (Returned(k) /\ DebitCreditMode) =>
            \A i \in 1..Len(previews[k].preview[1].transactions) :
                DebitBranch(previews[k].preview[1].transactions[i],
                            ShapeCell(DataRows[i], config.field_mapping.debit_column),
                            ShapeCell(DataRows[i], config.field_mapping.credit_column))

\* the row with debit -5.00 and credit 7.00 comes out as income of 7.00
C12_Witness ==
    /\ Len(previews) >= 1 /\ Returned(1) /\ DebitCreditMode
    /\ Len(previews[1].preview[1].transactions) = 1
    /\ ShapeCell(DataRows[1], config.field_mapping.debit_column) = 0 - 5000
    /\ ShapeCell(DataRows[1], config.field_mapping.credit_column) = 7000
    /\ previews[1].preview[1].transactions[1].type = "income"
    /\ previews[1].preview[1].transactions[1].amount = 7000

TransactionTypes == {"income", "expense", "transfer", "buy", "sell"}

\* the number in the amount cell of a data row
AmountCell(row) == ParseNumber(config, Strip(RowGet(row, config.field_mapping.amount_column).s))

\* the stored amount is the parsed amount without its sign
MagnitudeOf(tx, row) ==
    IF tx.has_error THEN tx.amount = 0
    ELSE IF DebitCreditMode
    THEN tx.amount \in {ShapeCell(row, config.field_mapping.debit_column),
                        ShapeCell(row, config.field_mapping.credit_column), 0}
    ELSE tx.amount \in {AmountCell(row), 0 - AmountCell(row)}

\* C13: every TransactionPreview of every preview parse_csv_file returns has
\* amount >= 0, the absolute value of the parsed amount, and a type among
\* income, expense, transfer, buy, sell.
C13_AbsoluteAmount ==
    \A k \in 1..Len(previews) :
        Returned(k) =>
            \A i \in 1..Len(previews[k].preview[1].transactions) :
                /\ ~IsNaN(previews[k].preview[1].transactions[i].amount)
                /\ previews[k].preview[1].transactions[i].amount >= 0
                /\ previews[k].preview[1].transactions[i].type \in TransactionTypes
                /\ MagnitudeOf(previews[k].preview[1].transactions[i], DataRows[i])

\* a row whose amount cell reads NaN: a valid row whose amount is float('nan')
C13_Witness ==
    /\ Len(previews) >= 1 /\ Returned(1)
    /\ Len(previews[1].preview[1].transactions) = 1
    /\ ~previews[1].preview[1].transactions[1].has_error
    /\ IsNaN(previews[1].preview[1].transactions[1].amount)

OperationMode == ~DebitCreditMode /\ config.field_mapping.operation_column # None

\* the type the operation cells of the specification stand for
ExpectedOperationType(operation) ==
    CASE operation = <<"C","o","m","p","r","a">> -> "buy"
      [] operation = <<"V">> -> "sell"
      [] operation = <<"D","i","v","i","d","e","n","d">> -> "income"
      [] operation = <<"T","R","A","N","S","F","E","R","Ê","N","C","I","A">> -> "transfer"
      [] OTHER -> "expense"

\* C14: in single-amount mode with an operation_column, the type of a row is
\* decided by its operation cell alone, case-insensitively (Compra: buy,
\* V: sell, Dividend: income, TRANSFERÊNCIA: transfer), whatever the sign of
\* the amount, negative_means_expense and the type_column say.
C14_OperationOverrides ==
    \A k \in 1..Len(previews) :
        (Returned(k) /\ OperationMode) =>
            \A i \in 1..Len(previews[k].preview[1].transactions) :
                ~previews[k].preview[1].transactions[i].has_error =>
                    previews[k].preview[1].transactions[i].type
                        = ExpectedOperationType(DataRows[i].cells.Operation[1])

\* a negative amount of type Credit with operation V, under a mapping with
\* both a type_column and an operation_column: a sell
C14_Witness ==
    /\ Len(previews) >= 1 /\ Returned(1) /\ OperationMode
    /\ config.field_mapping.type_column # None
    /\ Len(previews[1].preview[1].transactions) = 1
    /\ ~previews[1].preview[1].transactions[1].has_error
    /\ AmountCell(DataRows[1]) < 0
    /\ DataRows[1].cells.Type[1] = <<"C","r","e","d","i","t">>
    /\ DataRows[1].cells.Operation[1] = <<"V">>
    /\ previews[1].preview[1].transactions[1].type = "sell"

\* no amount path: no amount_column, and not both debit and credit columns
NoAmountPath == ~DebitCreditMode /\ config.field_mapping.amount_column = None

\* C15: when the FieldMapping resolves no amount path, the import is
\* unusable: parse_csv_file fails, or every row of the preview is an error
\* row; no valid row with amount 0 is produced.
C15_NoAmountPathFails ==
    \A k \in 1..Len(previews) :
        (NoAmountPath /\ Returned(k)) =>
            \A i \in 1..Len(previews[k].preview[1].transactions) :
                previews[k].preview[1].transactions[i].has_error

\* a mapping without amount path gives a preview of one valid row of amount 0
C15_Witness ==
    /\ Len(previews) >= 1 /\ Returned(1) /\ NoAmountPath
    /\ previews[1].preview[1].valid_rows = 1
    /\ previews[1].preview[1].error_rows = 0
    /\ previews[1].preview[1].transactions[1].amount = 0

\* C16: an input with zero data rows (no row at all, or skip_rows at least
\* the number of rows) makes parse_csv_file return, never raise, a preview
\* with total_rows = valid_rows = duplicate_rows = error_rows = 0, an empty
\* transaction list and no date_range.
C16_EmptyInput ==
    \A k \in 1..Len(previews) :
        DataRows = <<>> =>
            /\ Returned(k)
            /\ previews[k].preview[1].total_rows = 0
            /\ previews[k].preview[1].valid_rows = 0
            /\ previews[k].preview[1].duplicate_rows = 0
            /\ previews[k].preview[1].error_rows = 0
            /\ previews[k].preview[1].transactions = <<>>
            /\ previews[k].preview[1].date_range = None

\* one row and skip_rows = 2: a returned preview of zero rows
C16_Witness ==
    /\ Len(file) = 1 /\ config.skip_rows = 2
    /\ Len(previews) >= 1 /\ Returned(1)
    /\ previews[1].preview[1].total_rows = 0
    /\ previews[1].preview[1].transactions = <<>>

\* no row at all: a returned preview of zero rows
C16_WitnessNoRows ==
    /\ file = <<>>
    /\ Len(previews) >= 1 /\ Returned(1)
    /\ previews[1].preview[1].total_rows = 0

\* the file has been previewed on an empty store, the records of its commit
\* persisted, and the file previewed again
Reimported == Len(previews) = 2 /\ existing # <<>>

AllFlaggedDuplicate(transactions) ==
    \A i \in 1..Len(transactions) :
        ~transactions[i].has_error => transactions[i].is_duplicate

\* C20: re-import is idempotent.  After the records of a first commit
\* (skip_duplicates and skip_errors set) are persisted, a second preview of
\* the same text flags every non-error row as duplicate and a second commit
\* creates no record, under every mapping shape.
C20_ReimportIdempotent ==
    Reimported =>
        /\ Returned(2)
        /\ AllFlaggedDuplicate(previews[2].preview[1].transactions)
        /\ (created # None => created[1].records = <<>>)

\* a row of -4.50 under an operation column is stored as 4.50, not flagged
\* on re-import and created a second time
C20_Witness ==
    /\ Reimported /\ OperationMode
    /\ AmountCell(DataRows[1]) = 0 - 4500
    /\ existing[1].amount = 4500
    /\ ~previews[2].preview[1].transactions[1].is_duplicate
    /\ created # None
    /\ Len(created[1].records) = 1

(***************************************************************************)
(* Row numbering (Spec).                                                   *)
(***************************************************************************)
\* C18: row numbers are 1-based: the k-th data row parsed has
\* TransactionPreview.row_number = k, error rows included.
C18_OneBasedRowNumbers ==
    \A k \in 1..Len(previews) :
        Returned(k) =>
            \A i \in 1..Len(previews[k].preview[1].transactions) :
                previews[k].preview[1].transactions[i].row_number = i

\* the first data row carries row number 0, and a commit selecting rows 1
\* and 2 of a file of two rows creates the record of the second data row alone
C18_Witness ==
    /\ Len(previews) >= 1 /\ Returned(1)
    /\ Len(previews[1].preview[1].transactions) = 2
    /\ previews[1].preview[1].transactions[1].row_number = 0
    /\ previews[1].preview[1].transactions[2].row_number = 1
    /\ ~previews[1].preview[1].transactions[1].has_error
    /\ ~previews[1].preview[1].transactions[2].has_error
    /\ previews[1].preview[1].transactions[1].description
          # previews[1].preview[1].transactions[2].description
    /\ created # None
    /\ created[1].selected_rows = Some({1, 2})
    /\ Len(created[1].records) = 1
    /\ created[1].records[1].description = previews[1].preview[1].transactions[2].description
(***************************************************************************)
(* The import API (api/csv_import.py): the handlers preview_csv_import,    *)
(* import_transactions and delete_preview over the module's stores.  api   *)
(* holds import_previews (a set of [import_id, preview]), transactions_db, *)
(* import_history, next_id, the number of uuids drawn so far (uuid4 is a   *)
(* value never drawn before) and the response of the last call.            *)
(***************************************************************************)
MaxImports == 2

\* uploads: one row, two rows, and a line with more cells than the header
ApiFiles == { <<RowCoffee>>, <<RowTea>>, <<RowCoffee, RowTea>>, <<RowLong>> }

ApiConfig ==
    [bank_format |-> "generic",
     field_mapping |-> GenericMapping(TRUE),
     skip_rows |-> 0,
     skip_duplicates |-> TRUE,
     date_range_start |-> None,
     date_range_end |-> None]

ImportIds == 1..MaxImports

InitApi ==
    /\ file = <<>>
    /\ config = ApiConfig
    /\ existing = <<>>
    /\ now = NowStart
    /\ callsLeft = 0
    /\ previews = <<>>
    /\ created = None
    /\ cand = None
    /\ dupResult = None
    /\ arg = None
    /\ result = None
    /\ api = [import_previews |-> {}, transactions_db |-> <<>>, import_history |-> <<>>,
              next_id |-> 1, uuids |-> 0, response |-> None]

Response(op, import_id, status) == Some([op |-> op, import_id |-> import_id, status |-> status])

\* the outcome r of parse_csv_file decides: HTTP 400, or the preview is
\* stored under a fresh import_id
PreviewOutcome(r) ==
    IF r.exc # None
    THEN [api EXCEPT !.response = Response("preview", 0, 400)]
    ELSE [api EXCEPT !.import_previews = @ \cup {[import_id |-> api.uuids + 1, preview |-> r.preview[1]]},
                     !.uuids = @ + 1,
                     !.response = Response("preview", api.uuids + 1, 200)]

preview_csv_import(is_csv, file_content) ==
    IF ~is_csv THEN [api EXCEPT !.response = Response("preview", 0, 400)]
    ELSE PreviewOutcome(parse_csv_file(file_content, ApiConfig, api.transactions_db, now))

PreviewCsvImport ==
    /\ api.uuids < MaxImports
    /\ \E is_csv \in BOOLEAN, file_content \in ApiFiles :
          api' = preview_csv_import(is_csv, file_content)
    /\ UNCHANGED <<file, config, existing, now, callsLeft, previews, created, cand, dupResult,
                   arg, result>>

\* import_previews.get(import_id), as a set of zero or one preview
PreviewsGet(import_id) == { e.preview : e \in { s \in api.import_previews : s.import_id = import_id } }

WithoutPreview(import_id) == { s \in api.import_previews : s.import_id # import_id }

\* variant: the preview is kept after the import
ImportRecordsKeepingPreview(import_id, records) ==
    [api EXCEPT !.transactions_db =
                    @ \o [i \in 1..Len(records) |-> Transaction(api.next_id + i - 1, records[i])],
                !.next_id = @ + Len(records),
                !.import_history = Append(@, [import_id |-> import_id,
                                              imported_count |-> Len(records)]),
                !.response = Response("import", import_id, 200)]

\* the loop over transactions_to_create, the history entry and the clean-up
ImportRecords(import_id, records) ==
    [api EXCEPT !.transactions_db =
                    @ \o [i \in 1..Len(records) |-> Transaction(api.next_id + i - 1, records[i])],
                !.next_id = @ + Len(records),
                !.import_history = Append(@, [import_id |-> import_id,
                                              imported_count |-> Len(records)]),
                !.import_previews = WithoutPreview(import_id),
                !.response = Response("import", import_id, 200)]

ImportFound(request, found) ==
    IF found = {} THEN [api EXCEPT !.response = Response("import", request.import_id, 404)]
    ELSE ImportRecords(request.import_id,
                       create_transactions_from_preview(CHOOSE p \in found : TRUE,
                                                        request.skip_duplicates,
                                                        request.skip_errors,
                                                        request.selected_rows))

import_transactions(request) == ImportFound(request, PreviewsGet(request.import_id))

ImportTransactions ==
    /\ \E import_id \in ImportIds, sd \in BOOLEAN, se \in BOOLEAN, sel \in {None, Some({0})} :
          api' = import_transactions([import_id |-> import_id, skip_duplicates |-> sd,
                                      skip_errors |-> se, selected_rows |-> sel])
    /\ UNCHANGED <<file, config, existing, now, callsLeft, previews, created, cand, dupResult,
                   arg, result>>

delete_preview(import_id) ==
    IF PreviewsGet(import_id) # {}
    THEN [api EXCEPT !.import_previews = WithoutPreview(import_id),
                     !.response = Response("delete", import_id, 200)]
    ELSE [api EXCEPT !.response = Response("delete", import_id, 404)]

DeletePreview ==
    /\ \E import_id \in ImportIds : api' = delete_preview(import_id)
    /\ UNCHANGED <<file, config, existing, now, callsLeft, previews, created, cand, dupResult,
                   arg, result>>

NextApi == PreviewCsvImport \/ ImportTransactions \/ DeletePreview

SpecApi == InitApi /\ [][NextApi]_vars
(***************************************************************************)
(* Properties of the import API (SpecApi).                                 *)
(***************************************************************************)
StoredIds(a) == { s.import_id : s \in a.import_previews }

HistoryEntries(a, import_id) ==
    { i \in 1..Len(a.import_history) : a.import_history[i].import_id = import_id }

\* an id is imported at most once, and an imported id is no longer stored
C17_ImportedOnce ==
    \A import_id \in ImportIds :
        /\ Cardinality(HistoryEntries(api, import_id)) <= 1
        /\ HistoryEntries(api, import_id) # {} => import_id \notin StoredIds(api)
        /\ import_id \in StoredIds(api) => import_id <= api.uuids

\* what the call answered by response did to the stores
C17_Call(response) ==
    \* a stored preview stays, unchanged, until an import or delete of its
    \* id is answered 200
    /\ \A s \in api.import_previews :
          \/ s \in api'.import_previews
          \/ /\ response.op \in {"import", "delete"}
             /\ response.import_id = s.import_id
             /\ response.status = 200
             /\ s.import_id \notin StoredIds(api')
    \* an id becomes stored only as the fresh id a preview call returns
    /\ \A s \in api'.import_previews \ api.import_previews :
          /\ response = [op |-> "preview", import_id |-> s.import_id, status |-> 200]
          /\ s.import_id = api.uuids + 1
    \* import or delete of an id that is not stored: 404, nothing added
    /\ (response.op \in {"import", "delete"} /\ response.import_id \notin StoredIds(api)) =>
          /\ response.status = 404
          /\ api'.transactions_db = api.transactions_db
          /\ api'.import_history = api.import_history
          /\ api'.import_previews = api.import_previews
    \* import of a stored id: 200, one history entry, the preview removed
    /\ (response.op = "import" /\ response.import_id \in StoredIds(api)) =>
          /\ response.status = 200
          /\ response.import_id \notin StoredIds(api')
          /\ Len(api'.import_history) = Len(api.import_history) + 1
          /\ api'.import_history[Len(api'.import_history)].import_id = response.import_id
    \* delete and preview add nothing to the transaction store or the history
    /\ response.op \in {"delete", "preview"} =>
          /\ api'.transactions_db = api.transactions_db
          /\ api'.import_history = api.import_history

\* C17: two-phase preview and commit.  Over any sequence of preview, import
\* and delete-preview calls, an import_id issued by a preview call stays
\* stored until it is imported or deleted, and is imported at most once: the
\* first import removes the stored preview, and every later import or delete
\* with that id answers 404 and adds nothing to the transaction store or to
\* the import history.
C17_TwoPhase == []C17_ImportedOnce /\ [][C17_Call(api'.response[1])]_vars

\* id 1 was imported, adding a transaction, and a second import of id 1 has
\* just been answered 404 while the preview of id 2 is still stored
C17_Witness ==
    /\ HistoryEntries(api, 1) # {}
    /\ api.transactions_db # <<>>
    /\ api.response = Response("import", 1, 404)
    /\ StoredIds(api) = {2}
    /\ Len(api.import_history) = 1
(***************************************************************************)
(* CSVParserService.detect_bank_format.  A header is a str, a header list  *)
(* a sequence of them; the result is None or the BankFormat's value.       *)
(***************************************************************************)
\* [h.lower().strip() for h in headers]
HeadersLower(headers) == [i \in 1..Len(headers) |-> Strip(Lower(headers[i]))]

\* h in headers_lower
In(h, headers_lower) == \E i \in 1..Len(headers_lower) : headers_lower[i] = h

\* " ".join(headers_lower)
RECURSIVE Join(_)
Join(headers_lower) ==
    IF headers_lower = <<>> THEN <<>>
    ELSE IF Len(headers_lower) = 1 THEN headers_lower[1]
    ELSE headers_lower[1] \o <<" ">> \o Join(Tail(headers_lower))

\* the dict, in insertion order
BRAZILIAN_HEADER_PATTERNS ==
    << [format |-> "clear", patterns |-> << <<"d","a","t","a"," ","n","e","g","ó","c","i","o">>, <<"c","/","v">>, <<"c","ó","d","i","g","o">>, <<"e","s","p","e","c","i","f","i","c","a","ç","ã","o">> >>],
       [format |-> "xp", patterns |-> << <<"d","a","t","a"," ","d","o"," ","n","e","g","ó","c","i","o">>, <<"c","ó","d","i","g","o"," ","d","o"," ","a","t","i","v","o">>, <<"t","i","p","o"," ","d","e"," ","m","o","v","i","m","e","n","t","a","ç","ã","o">> >>],
       [format |-> "b3_cei", patterns |-> << <<"c","ó","d","i","g","o"," ","d","e"," ","n","e","g","o","c","i","a","ç","ã","o">>, <<"i","n","s","t","i","t","u","i","ç","ã","o">>, <<"d","a","t","a"," ","d","o"," ","n","e","g","ó","c","i","o">> >>],
       [format |-> "nubank_investments", patterns |-> << <<"a","t","i","v","o">>, <<"q","u","a","n","t","i","d","a","d","e">>, <<"p","r","e","ç","o">>, <<"t","i","p","o">> >>] >>

\* all(pattern in headers_joined for pattern in patterns)
AllPatternsIn(patterns, headers_joined) ==
    \A i \in 1..Len(patterns) : Contains(headers_joined, patterns[i])

\* the checks after the loop over the Brazilian patterns
DetectPositions(headers_lower) ==
    IF In(<<"d","a","t","e">>, headers_lower) /\ In(<<"t","i","t","l","e">>, headers_lower) /\ In(<<"c","a","t","e","g","o","r","y">>, headers_lower)
    THEN Some("nubank")
    ELSE IF In(<<"c","ó","d","i","g","o">>, headers_lower) /\ In(<<"q","u","a","n","t","i","d","a","d","e">>, headers_lower)
            /\ In(<<"p","r","e","ç","o"," ","m","é","d","i","o">>, headers_lower)
    THEN Some("clear_positions")
    ELSE IF In(<<"c","ó","d","i","g","o">>, headers_lower) /\ In(<<"q","u","a","n","t","i","d","a","d","e">>, headers_lower)
            /\ In(<<"p","r","o","d","u","t","o">>, headers_lower)
    THEN Some("xp_positions")
    ELSE None

\* for format_type, patterns in BRAZILIAN_HEADER_PATTERNS.items(): from the
\* k-th entry on
RECURSIVE DetectBrazilian(_, _, _)
DetectBrazilian(k, headers_lower, headers_joined) ==
    IF k > Len(BRAZILIAN_HEADER_PATTERNS) THEN DetectPositions(headers_lower)
    ELSE IF AllPatternsIn(BRAZILIAN_HEADER_PATTERNS[k].patterns, headers_joined)
    THEN Some(BRAZILIAN_HEADER_PATTERNS[k].format)
    ELSE DetectBrazilian(k + 1, headers_lower, headers_joined)

\* variant: Wealthsimple Cash is tested before Wealthsimple Trade
DetectWealthsimpleFirst(headers_lower) ==
    IF In(<<"d","a","t","e">>, headers_lower) /\ In(<<"m","e","r","c","h","a","n","t">>, headers_lower)
       /\ In(<<"c","a","t","e","g","o","r","y">>, headers_lower) /\ In(<<"a","c","c","o","u","n","t">>, headers_lower)
       /\ In(<<"o","r","i","g","i","n","a","l"," ","s","t","a","t","e","m","e","n","t">>, headers_lower)
    THEN Some("monarch")
    ELSE IF In(<<"t","r","a","n","s","f","e","r","w","i","s","e"," ","i","d">>, headers_lower)
            \/ (In(<<"d","a","t","e">>, headers_lower) /\ In(<<"r","u","n","n","i","n","g"," ","b","a","l","a","n","c","e">>, headers_lower)
                /\ In(<<"c","u","r","r","e","n","c","y">>, headers_lower))
    THEN Some("wise")
    ELSE IF In(<<"d","a","t","e">>, headers_lower) /\ In(<<"d","e","s","c","r","i","p","t","i","o","n">>, headers_lower)
            /\ In(<<"c","u","r","r","e","n","c","y">>, headers_lower) /\ In(<<"a","m","o","u","n","t">>, headers_lower)
    THEN Some("wealthsimple")
    ELSE IF In(<<"s","y","m","b","o","l">>, headers_lower) /\ In(<<"t","r","a","n","s","a","c","t","i","o","n"," ","t","y","p","e">>, headers_lower)
            /\ In(<<"m","a","r","k","e","t"," ","v","a","l","u","e">>, headers_lower)
    THEN Some("wealthsimple_trade")
    ELSE IF In(<<"a","c","t","i","o","n">>, headers_lower) /\ In(<<"s","y","m","b","o","l">>, headers_lower)
            /\ In(<<"f","e","e","s"," ","&"," ","c","o","m","m">>, headers_lower)
    THEN Some("schwab")
    ELSE IF In(<<"p","o","s","t","i","n","g"," ","d","a","t","e">>, headers_lower) /\ In(<<"t","y","p","e">>, headers_lower)
    THEN Some("chase")
    ELSE IF In(<<"t","r","a","n","s","a","c","t","i","o","n"," ","d","a","t","e">>, headers_lower) /\ In(<<"d","e","b","i","t">>, headers_lower)
    THEN Some("capital_one")
    ELSE IF In(<<"a","c","c","o","u","n","t"," ","n","u","m","b","e","r">>, headers_lower)
            /\ (In(<<"d","e","s","c","r","i","p","t","i","o","n"," ","1">>, headers_lower)
                \/ In(<<"t","r","a","n","s","a","c","t","i","o","n"," ","d","a","t","e">>, headers_lower))
    THEN Some("rbc")
    ELSE DetectBrazilian(1, headers_lower, Join(headers_lower))

\* the chain of checks on headers_lower
DetectLowered(headers_lower) ==
    IF In(<<"d","a","t","e">>, headers_lower) /\ In(<<"m","e","r","c","h","a","n","t">>, headers_lower)
       /\ In(<<"c","a","t","e","g","o","r","y">>, headers_lower) /\ In(<<"a","c","c","o","u","n","t">>, headers_lower)
       /\ In(<<"o","r","i","g","i","n","a","l"," ","s","t","a","t","e","m","e","n","t">>, headers_lower)
    THEN Some("monarch")
    ELSE IF In(<<"t","r","a","n","s","f","e","r","w","i","s","e"," ","i","d">>, headers_lower)
            \/ (In(<<"d","a","t","e">>, headers_lower) /\ In(<<"r","u","n","n","i","n","g"," ","b","a","l","a","n","c","e">>, headers_lower)
                /\ In(<<"c","u","r","r","e","n","c","y">>, headers_lower))
    THEN Some("wise")
    ELSE IF In(<<"s","y","m","b","o","l">>, headers_lower) /\ In(<<"t","r","a","n","s","a","c","t","i","o","n"," ","t","y","p","e">>, headers_lower)
            /\ In(<<"m","a","r","k","e","t"," ","v","a","l","u","e">>, headers_lower)
    THEN Some("wealthsimple_trade")
    ELSE IF In(<<"d","a","t","e">>, headers_lower) /\ In(<<"d","e","s","c","r","i","p","t","i","o","n">>, headers_lower)
            /\ In(<<"c","u","r","r","e","n","c","y">>, headers_lower) /\ In(<<"a","m","o","u","n","t">>, headers_lower)
    THEN Some("wealthsimple")
    ELSE IF In(<<"a","c","t","i","o","n">>, headers_lower) /\ In(<<"s","y","m","b","o","l">>, headers_lower)
            /\ In(<<"f","e","e","s"," ","&"," ","c","o","m","m">>, headers_lower)
    THEN Some("schwab")
    ELSE IF In(<<"p","o","s","t","i","n","g"," ","d","a","t","e">>, headers_lower) /\ In(<<"t","y","p","e">>, headers_lower)
    THEN Some("chase")
    ELSE IF In(<<"t","r","a","n","s","a","c","t","i","o","n"," ","d","a","t","e">>, headers_lower) /\ In(<<"d","e","b","i","t">>, headers_lower)
    THEN Some("capital_one")
    ELSE IF In(<<"a","c","c","o","u","n","t"," ","n","u","m","b","e","r">>, headers_lower)
            /\ (In(<<"d","e","s","c","r","i","p","t","i","o","n"," ","1">>, headers_lower)
                \/ In(<<"t","r","a","n","s","a","c","t","i","o","n"," ","d","a","t","e">>, headers_lower))
    THEN Some("rbc")
    ELSE DetectBrazilian(1, headers_lower, Join(headers_lower))

detect_bank_format(headers) == DetectLowered(HeadersLower(headers))

(***************************************************************************)
(* Header lists: the lower-case headers that satisfy each check, an        *)
(* unknown list, one header holding all Nubank Investments patterns, the   *)
(* empty list, and every concatenation of two of them; each is handed to   *)
(* detect_bank_format as written, in upper case, or padded with whitespace.*)
(***************************************************************************)
BaseHeaders ==
    { << <<"d","a","t","e">>, <<"m","e","r","c","h","a","n","t">>, <<"c","a","t","e","g","o","r","y">>, <<"a","c","c","o","u","n","t">>, <<"o","r","i","g","i","n","a","l"," ","s","t","a","t","e","m","e","n","t">> >>,
      << <<"t","r","a","n","s","f","e","r","w","i","s","e"," ","i","d">> >>,
      << <<"d","a","t","e">>, <<"r","u","n","n","i","n","g"," ","b","a","l","a","n","c","e">>, <<"c","u","r","r","e","n","c","y">> >>,
      << <<"s","y","m","b","o","l">>, <<"t","r","a","n","s","a","c","t","i","o","n"," ","t","y","p","e">>, <<"m","a","r","k","e","t"," ","v","a","l","u","e">> >>,
      << <<"d","a","t","e">>, <<"d","e","s","c","r","i","p","t","i","o","n">>, <<"c","u","r","r","e","n","c","y">>, <<"a","m","o","u","n","t">> >>,
      << <<"a","c","t","i","o","n">>, <<"s","y","m","b","o","l">>, <<"f","e","e","s"," ","&"," ","c","o","m","m">> >>,
      << <<"p","o","s","t","i","n","g"," ","d","a","t","e">>, <<"t","y","p","e">> >>,
      << <<"t","r","a","n","s","a","c","t","i","o","n"," ","d","a","t","e">>, <<"d","e","b","i","t">> >>,
      << <<"a","c","c","o","u","n","t"," ","n","u","m","b","e","r">>, <<"d","e","s","c","r","i","p","t","i","o","n"," ","1">> >>,
      << <<"a","c","c","o","u","n","t"," ","n","u","m","b","e","r">>, <<"t","r","a","n","s","a","c","t","i","o","n"," ","d","a","t","e">> >>,
      << <<"d","a","t","a"," ","n","e","g","ó","c","i","o">>, <<"c","/","v">>, <<"c","ó","d","i","g","o">>, <<"e","s","p","e","c","i","f","i","c","a","ç","ã","o">> >>,
      << <<"d","a","t","a"," ","d","o"," ","n","e","g","ó","c","i","o">>, <<"c","ó","d","i","g","o"," ","d","o"," ","a","t","i","v","o">>, <<"t","i","p","o"," ","d","e"," ","m","o","v","i","m","e","n","t","a","ç","ã","o">> >>,
      << <<"c","ó","d","i","g","o"," ","d","e"," ","n","e","g","o","c","i","a","ç","ã","o">>, <<"i","n","s","t","i","t","u","i","ç","ã","o">>, <<"d","a","t","a"," ","d","o"," ","n","e","g","ó","c","i","o">> >>,
      << <<"a","t","i","v","o">>, <<"q","u","a","n","t","i","d","a","d","e">>, <<"p","r","e","ç","o">>, <<"t","i","p","o">> >>,
      << <<"d","a","t","e">>, <<"t","i","t","l","e">>, <<"c","a","t","e","g","o","r","y">> >>,
      << <<"c","ó","d","i","g","o">>, <<"q","u","a","n","t","i","d","a","d","e">>, <<"p","r","e","ç","o"," ","m","é","d","i","o">> >>,
      << <<"c","ó","d","i","g","o">>, <<"q","u","a","n","t","i","d","a","d","e">>, <<"p","r","o","d","u","t","o">> >>,
      << <<"m","e","m","o">>, <<"b","a","l","a","n","c","e">> >>,
      << <<"a","t","i","v","o"," ","q","u","a","n","t","i","d","a","d","e"," ","p","r","e","ç","o"," ","t","i","p","o">> >>,
      <<>> }

UpperChar(c) ==
    IF \E i \in 1..Len(LowerLetters) : LowerLetters[i] = c
    THEN Upper[CHOOSE i \in 1..Len(LowerLetters) : LowerLetters[i] = c]
    ELSE c

Decorations == {"as written", "upper case", "padded"}

DecorateHeader(decoration, h) ==
    CASE decoration = "upper case" -> [i \in 1..Len(h) |-> UpperChar(h[i])]
      [] decoration = "padded" -> <<" ", "\t">> \o h \o <<" ", "\r">>
      [] OTHER -> h

Decorate(decoration, headers) ==
    [i \in 1..Len(headers) |-> DecorateHeader(decoration, headers[i])]

InitDetect ==
    /\ file = <<>>
    /\ config = ApiConfig
    /\ existing = <<>>
    /\ now = NowStart
    /\ callsLeft = 0
    /\ previews = <<>>
    /\ created = None
    /\ cand = None
    /\ dupResult = None
    /\ \E first \in BaseHeaders, second \in BaseHeaders, decoration \in Decorations :
          arg = Some([headers |-> first \o second, decoration |-> decoration])
    /\ result = None
    /\ api = None

DetectBankFormat ==
    /\ result = None
    /\ result' = Some(detect_bank_format(Decorate(arg[1].decoration, arg[1].headers)))
    /\ UNCHANGED <<file, config, existing, now, callsLeft, previews, created, cand, dupResult,
                   arg, api>>

NextDetect == DetectBankFormat

SpecDetect == InitDetect /\ [][NextDetect]_vars
(***************************************************************************)
(* Properties of detect_bank_format (SpecDetect).                          *)
(***************************************************************************)
\* the dialects in the order of the checks
DetectionOrder ==
    << "monarch", "wise", "wealthsimple_trade", "wealthsimple", "schwab", "chase",
       "capital_one", "rbc", "clear", "xp", "b3_cei", "nubank_investments", "nubank",
       "clear_positions", "xp_positions" >>

HeaderSet(headers) == { headers[i] : i \in 1..Len(headers) }

\* every pattern is part of the headers joined by single spaces
PatternsIn(patterns, headers) == \A p \in patterns : Contains(Join(headers), p)

\* the predicate of each dialect, on lower-case headers without padding
Satisfies(format, headers) ==
    CASE format = "monarch" -> { <<"d","a","t","e">>, <<"m","e","r","c","h","a","n","t">>, <<"c","a","t","e","g","o","r","y">>, <<"a","c","c","o","u","n","t">>, <<"o","r","i","g","i","n","a","l"," ","s","t","a","t","e","m","e","n","t">> } \subseteq HeaderSet(headers)
      [] format = "wise" -> \/ <<"t","r","a","n","s","f","e","r","w","i","s","e"," ","i","d">> \in HeaderSet(headers)
                            \/ { <<"d","a","t","e">>, <<"r","u","n","n","i","n","g"," ","b","a","l","a","n","c","e">>, <<"c","u","r","r","e","n","c","y">> } \subseteq HeaderSet(headers)
      [] format = "wealthsimple_trade" -> { <<"s","y","m","b","o","l">>, <<"t","r","a","n","s","a","c","t","i","o","n"," ","t","y","p","e">>, <<"m","a","r","k","e","t"," ","v","a","l","u","e">> } \subseteq HeaderSet(headers)
      [] format = "wealthsimple" -> { <<"d","a","t","e">>, <<"d","e","s","c","r","i","p","t","i","o","n">>, <<"c","u","r","r","e","n","c","y">>, <<"a","m","o","u","n","t">> } \subseteq HeaderSet(headers)
      [] format = "schwab" -> { <<"a","c","t","i","o","n">>, <<"s","y","m","b","o","l">>, <<"f","e","e","s"," ","&"," ","c","o","m","m">> } \subseteq HeaderSet(headers)
      [] format = "chase" -> { <<"p","o","s","t","i","n","g"," ","d","a","t","e">>, <<"t","y","p","e">> } \subseteq HeaderSet(headers)
      [] format = "capital_one" -> { <<"t","r","a","n","s","a","c","t","i","o","n"," ","d","a","t","e">>, <<"d","e","b","i","t">> } \subseteq HeaderSet(headers)
      [] format = "rbc" -> /\ <<"a","c","c","o","u","n","t"," ","n","u","m","b","e","r">> \in HeaderSet(headers)
                           /\ { <<"d","e","s","c","r","i","p","t","i","o","n"," ","1">>, <<"t","r","a","n","s","a","c","t","i","o","n"," ","d","a","t","e">> } \cap HeaderSet(headers) # {}
      [] format = "clear" -> PatternsIn({ <<"d","a","t","a"," ","n","e","g","ó","c","i","o">>, <<"c","/","v">>, <<"c","ó","d","i","g","o">>, <<"e","s","p","e","c","i","f","i","c","a","ç","ã","o">> }, headers)
      [] format = "xp" -> PatternsIn({ <<"d","a","t","a"," ","d","o"," ","n","e","g","ó","c","i","o">>, <<"c","ó","d","i","g","o"," ","d","o"," ","a","t","i","v","o">>, <<"t","i","p","o"," ","d","e"," ","m","o","v","i","m","e","n","t","a","ç","ã","o">> }, headers)
      [] format = "b3_cei" -> PatternsIn({ <<"c","ó","d","i","g","o"," ","d","e"," ","n","e","g","o","c","i","a","ç","ã","o">>, <<"i","n","s","t","i","t","u","i","ç","ã","o">>, <<"d","a","t","a"," ","d","o"," ","n","e","g","ó","c","i","o">> }, headers)
      [] format = "nubank_investments" -> PatternsIn({ <<"a","t","i","v","o">>, <<"q","u","a","n","t","i","d","a","d","e">>, <<"p","r","e","ç","o">>, <<"t","i","p","o">> }, headers)
      [] format = "nubank" -> { <<"d","a","t","e">>, <<"t","i","t","l","e">>, <<"c","a","t","e","g","o","r","y">> } \subseteq HeaderSet(headers)
      [] format = "clear_positions" -> { <<"c","ó","d","i","g","o">>, <<"q","u","a","n","t","i","d","a","d","e">>, <<"p","r","e","ç","o"," ","m","é","d","i","o">> } \subseteq HeaderSet(headers)
      [] format = "xp_positions" -> { <<"c","ó","d","i","g","o">>, <<"q","u","a","n","t","i","d","a","d","e">>, <<"p","r","o","d","u","t","o">> } \subseteq HeaderSet(headers)

FirstSatisfied(headers) ==
    IF \E k \in 1..Len(DetectionOrder) : Satisfies(DetectionOrder[k], headers)
    THEN Some(DetectionOrder[CHOOSE k \in 1..Len(DetectionOrder) :
                               /\ Satisfies(DetectionOrder[k], headers)
                               /\ \A j \in 1..(k - 1) : ~Satisfies(DetectionOrder[j], headers)])
    ELSE None

\* C19: detect_bank_format returns the dialect of the first predicate the
\* headers satisfy in the order Monarch, Wise, Wealthsimple Trade,
\* Wealthsimple, Schwab, Chase, Capital One, RBC, Clear, XP, B3/CEI, Nubank
\* Investments, Nubank, Clear positions, XP positions, or none; letter case
\* and surrounding whitespace of the headers make no difference, and headers
\* containing date, merchant, category, account and original statement
\* always give monarch.
C19_FirstMatchInOrder ==
    result # None =>
        /\ result[1] = FirstSatisfied(arg[1].headers)
        /\ { <<"d","a","t","e">>, <<"m","e","r","c","h","a","n","t">>, <<"c","a","t","e","g","o","r","y">>, <<"a","c","c","o","u","n","t">>, <<"o","r","i","g","i","n","a","l"," ","s","t","a","t","e","m","e","n","t">> } \subseteq HeaderSet(arg[1].headers) => result[1] = Some("monarch")

\* upper-case headers satisfying both Wealthsimple Trade and Wealthsimple
\* Cash: WEALTHSIMPLE_TRADE
C19_Witness ==
    /\ result # None
    /\ arg[1].decoration = "upper case"
    /\ Satisfies("wealthsimple_trade", arg[1].headers)
    /\ Satisfies("wealthsimple", arg[1].headers)
    /\ result[1] = Some("wealthsimple_trade")

\* padded Monarch headers followed by the Nubank headers: MONARCH
C19_WitnessMonarch ==
    /\ result # None
    /\ arg[1].decoration = "padded"
    /\ Satisfies("monarch", arg[1].headers)
    /\ Satisfies("nubank", arg[1].headers)
    /\ result[1] = Some("monarch")

\* headers no predicate holds of: none
C19_WitnessUnknown ==
    /\ result # None
    /\ arg[1].headers # <<>>
    /\ result[1] = None
(***************************************************************************)
(* The catalog CSVParserService.BANK_FORMATS: for each dialect the fields  *)
(* of its FieldMapping that _parse_row reads, its parsing policy flags,    *)
(* and columns, the names of all its *_column fields as header strings.    *)
(***************************************************************************)
CatalogMapping(date_column, description_column, amount_column, debit_column, credit_column, type_column, operation_column, date_format, amount_is_absolute, negative_means_expense, decimal_separator, columns) ==
    [date_column |-> date_column, description_column |-> description_column,
     amount_column |-> amount_column, debit_column |-> debit_column,
     credit_column |-> credit_column, type_column |-> type_column,
     operation_column |-> operation_column, date_format |-> date_format,
     amount_is_absolute |-> amount_is_absolute,
     negative_means_expense |-> negative_means_expense,
     decimal_separator |-> decimal_separator, columns |-> columns]

CatalogFormats ==
    { "monarch", "chase", "bank_of_america", "wells_fargo", "amex",
      "capital_one", "schwab", "td_bank", "rbc", "wealthsimple",
      "wealthsimple_trade", "nubank", "nubank_investments", "clear", "clear_positions",
      "xp", "xp_positions", "b3_cei", "wise" }

BANK_FORMATS(format) ==
    CASE format = "monarch" ->
           CatalogMapping("Date", "Merchant", Some("Amount"), None, None,
               None, None, FmtIso, FALSE, TRUE, ".",
               << <<"D","a","t","e">>, <<"M","e","r","c","h","a","n","t">>, <<"M","e","r","c","h","a","n","t">>, <<"O","r","i","g","i","n","a","l"," ","S","t","a","t","e","m","e","n","t">>, <<"N","o","t","e","s">>, <<"T","a","g","s">>, <<"A","m","o","u","n","t">>, <<"C","a","t","e","g","o","r","y">>, <<"A","c","c","o","u","n","t">> >>)
      [] format = "chase" ->
           CatalogMapping("Posting Date", "Description", Some("Amount"), None, None,
               Some("Type"), None, FmtUsSlash, FALSE, TRUE, ".",
               << <<"P","o","s","t","i","n","g"," ","D","a","t","e">>, <<"D","e","s","c","r","i","p","t","i","o","n">>, <<"A","m","o","u","n","t">>, <<"T","y","p","e">>, <<"C","a","t","e","g","o","r","y">>, <<"B","a","l","a","n","c","e">> >>)
      [] format = "bank_of_america" ->
           CatalogMapping("Date", "Description", Some("Amount"), None, None,
               None, None, FmtUsSlash, FALSE, TRUE, ".",
               << <<"D","a","t","e">>, <<"D","e","s","c","r","i","p","t","i","o","n">>, <<"A","m","o","u","n","t">>, <<"R","u","n","n","i","n","g"," ","B","a","l",".">> >>)
      [] format = "wells_fargo" ->
           CatalogMapping("Date", "Description", Some("Amount"), None, None,
               None, None, FmtUsSlash, FALSE, TRUE, ".",
               << <<"D","a","t","e">>, <<"D","e","s","c","r","i","p","t","i","o","n">>, <<"A","m","o","u","n","t">> >>)
      [] format = "amex" ->
           CatalogMapping("Date", "Description", Some("Amount"), None, None,
               None, None, FmtUsSlash, TRUE, TRUE, ".",
               << <<"D","a","t","e">>, <<"D","e","s","c","r","i","p","t","i","o","n">>, <<"A","m","o","u","n","t">> >>)
      [] format = "capital_one" ->
           CatalogMapping("Transaction Date", "Description", None, Some("Debit"), Some("Credit"),
               None, None, FmtIso, FALSE, TRUE, ".",
               << <<"T","r","a","n","s","a","c","t","i","o","n"," ","D","a","t","e">>, <<"D","e","s","c","r","i","p","t","i","o","n">>, <<"D","e","b","i","t">>, <<"C","r","e","d","i","t">>, <<"C","a","t","e","g","o","r","y">> >>)
      [] format = "schwab" ->
           CatalogMapping("Date", "Description", Some("Amount"), None, None,
               Some("Action"), None, FmtUsSlash, FALSE, TRUE, ".",
               << <<"D","a","t","e">>, <<"D","e","s","c","r","i","p","t","i","o","n">>, <<"A","m","o","u","n","t">>, <<"A","c","t","i","o","n">>, <<"S","y","m","b","o","l">>, <<"Q","u","a","n","t","i","t","y">>, <<"P","r","i","c","e">>, <<"F","e","e","s"," ","&"," ","C","o","m","m">> >>)
      [] format = "td_bank" ->
           CatalogMapping("Date", "Description", None, Some("Debit"), Some("Credit"),
               None, None, FmtUsSlash, FALSE, TRUE, ".",
               << <<"D","a","t","e">>, <<"D","e","s","c","r","i","p","t","i","o","n">>, <<"D","e","b","i","t">>, <<"C","r","e","d","i","t">> >>)
      [] format = "rbc" ->
           CatalogMapping("Transaction Date", "Description 1", None, Some("CAD$"), Some("CAD$"),
               None, None, FmtUsSlash, FALSE, TRUE, ".",
               << <<"T","r","a","n","s","a","c","t","i","o","n"," ","D","a","t","e">>, <<"D","e","s","c","r","i","p","t","i","o","n"," ","1">>, <<"C","A","D","$">>, <<"C","A","D","$">>, <<"A","c","c","o","u","n","t"," ","N","u","m","b","e","r">> >>)
      [] format = "wealthsimple" ->
           CatalogMapping("Date", "Description", Some("Amount"), None, None,
               None, None, FmtIso, FALSE, TRUE, ".",
               << <<"D","a","t","e">>, <<"D","e","s","c","r","i","p","t","i","o","n">>, <<"A","m","o","u","n","t">>, <<"A","c","c","o","u","n","t">>, <<"C","u","r","r","e","n","c","y">> >>)
      [] format = "wealthsimple_trade" ->
           CatalogMapping("Date", "Description", Some("Market Value"), None, None,
               None, Some("Transaction Type"), FmtIso, FALSE, TRUE, ".",
               << <<"D","a","t","e">>, <<"D","e","s","c","r","i","p","t","i","o","n">>, <<"M","a","r","k","e","t"," ","V","a","l","u","e">>, <<"T","r","a","n","s","a","c","t","i","o","n"," ","T","y","p","e">>, <<"S","y","m","b","o","l">>, <<"Q","u","a","n","t","i","t","y">>, <<"P","r","i","c","e">>, <<"C","u","r","r","e","n","c","y">>, <<"A","c","c","o","u","n","t">> >>)
      [] format = "nubank" ->
           CatalogMapping("date", "title", Some("amount"), None, None,
               None, None, FmtIso, FALSE, FALSE, ".",
               << <<"d","a","t","e">>, <<"t","i","t","l","e">>, <<"a","m","o","u","n","t">>, <<"c","a","t","e","g","o","r","y">> >>)
      [] format = "nubank_investments" ->
           CatalogMapping("Data", "Descrição", Some("Valor"), None, None,
               None, Some("Tipo"), FmtDaySlash, FALSE, TRUE, ",",
               << <<"D","a","t","a">>, <<"D","e","s","c","r","i","ç","ã","o">>, <<"V","a","l","o","r">>, <<"T","i","p","o">>, <<"A","t","i","v","o">>, <<"Q","u","a","n","t","i","d","a","d","e">>, <<"P","r","e","ç","o">> >>)
      [] format = "clear" ->
           CatalogMapping("Data Negócio", "Especificação do Título", Some("Valor Total"), None, None,
               None, Some("C/V"), FmtDaySlash, FALSE, TRUE, ",",
               << <<"D","a","t","a"," ","N","e","g","ó","c","i","o">>, <<"E","s","p","e","c","i","f","i","c","a","ç","ã","o"," ","d","o"," ","T","í","t","u","l","o">>, <<"V","a","l","o","r"," ","T","o","t","a","l">>, <<"C","/","V">>, <<"C","ó","d","i","g","o">>, <<"Q","u","a","n","t","i","d","a","d","e">>, <<"P","r","e","ç","o">>, <<"T","a","x","a">> >>)
      [] format = "clear_positions" ->
           CatalogMapping("Data", "Produto", Some("Valor Atualizado"), None, None,
               None, None, FmtDaySlash, FALSE, TRUE, ",",
               << <<"D","a","t","a">>, <<"P","r","o","d","u","t","o">>, <<"V","a","l","o","r"," ","A","t","u","a","l","i","z","a","d","o">>, <<"C","ó","d","i","g","o">>, <<"Q","u","a","n","t","i","d","a","d","e">>, <<"P","r","e","ç","o"," ","M","é","d","i","o">> >>)
      [] format = "xp" ->
           CatalogMapping("Data do Negócio", "Especificação do Ativo", Some("Valor Líquido"), None, None,
               None, Some("Tipo de Movimentação"), FmtDaySlash, FALSE, TRUE, ",",
               << <<"D","a","t","a"," ","d","o"," ","N","e","g","ó","c","i","o">>, <<"E","s","p","e","c","i","f","i","c","a","ç","ã","o"," ","d","o"," ","A","t","i","v","o">>, <<"V","a","l","o","r"," ","L","í","q","u","i","d","o">>, <<"T","i","p","o"," ","d","e"," ","M","o","v","i","m","e","n","t","a","ç","ã","o">>, <<"C","ó","d","i","g","o"," ","d","o"," ","A","t","i","v","o">>, <<"Q","u","a","n","t","i","d","a","d","e">>, <<"P","r","e","ç","o"," ","U","n","i","t","á","r","i","o">>, <<"T","a","x","a","s">> >>)
      [] format = "xp_positions" ->
           CatalogMapping("Data Posição", "Produto", Some("Valor Bruto"), None, None,
               None, None, FmtDaySlash, FALSE, TRUE, ",",
               << <<"D","a","t","a"," ","P","o","s","i","ç","ã","o">>, <<"P","r","o","d","u","t","o">>, <<"V","a","l","o","r"," ","B","r","u","t","o">>, <<"C","ó","d","i","g","o">>, <<"Q","u","a","n","t","i","d","a","d","e">>, <<"P","r","e","ç","o"," ","M","é","d","i","o">> >>)
      [] format = "b3_cei" ->
           CatalogMapping("Data do Negócio", "Especificação do título", Some("Valor"), None, None,
               None, Some("Tipo de Movimentação"), FmtDaySlash, FALSE, TRUE, ",",
               << <<"D","a","t","a"," ","d","o"," ","N","e","g","ó","c","i","o">>, <<"E","s","p","e","c","i","f","i","c","a","ç","ã","o"," ","d","o"," ","t","í","t","u","l","o">>, <<"V","a","l","o","r">>, <<"T","i","p","o"," ","d","e"," ","M","o","v","i","m","e","n","t","a","ç","ã","o">>, <<"C","ó","d","i","g","o"," ","d","e"," ","N","e","g","o","c","i","a","ç","ã","o">>, <<"Q","u","a","n","t","i","d","a","d","e">>, <<"P","r","e","ç","o">>, <<"I","n","s","t","i","t","u","i","ç","ã","o">> >>)
      [] format = "wise" ->
           CatalogMapping("Date", "Description", Some("Amount"), None, None,
               Some("TransferWise ID"), None, FmtIso, FALSE, TRUE, ".",
               << <<"D","a","t","e">>, <<"D","e","s","c","r","i","p","t","i","o","n">>, <<"A","m","o","u","n","t">>, <<"C","u","r","r","e","n","c","y">>, <<"T","r","a","n","s","f","e","r","W","i","s","e"," ","I","D">>, <<"T","r","a","n","s","f","e","r","W","i","s","e"," ","I","D">>, <<"R","u","n","n","i","n","g"," ","B","a","l","a","n","c","e">> >>)

(***************************************************************************)
(* Imports under the catalog: one row of each dialect, keyed by the        *)
(* columns _parse_row reads, parsed under the dialect's catalog mapping;   *)
(* and detect_bank_format on the dialect's own column names.               *)
(***************************************************************************)
CatalogConfig(format) ==
    [bank_format |-> format,
     field_mapping |-> BANK_FORMATS(format),
     skip_rows |-> 0,
     skip_duplicates |-> TRUE,
     date_range_start |-> None,
     date_range_end |-> None]

\* the columns of a mapping that _parse_row reads
ReadColumns(mapping) ==
    {mapping.date_column, mapping.description_column}
    \cup { c[1] : c \in {mapping.amount_column, mapping.debit_column, mapping.credit_column,
                         mapping.type_column, mapping.operation_column} \ {None} }

\* 5 January 2024 in the date format of the mapping
CatalogDate(date_format) ==
    IF date_format = FmtIso THEN <<"2","0","2","4","-","0","1","-","0","5">>
    ELSE IF date_format = FmtUsSlash THEN <<"0","1","/","0","5","/","2","0","2","4">>
    ELSE <<"0","5","/","0","1","/","2","0","2","4">>

CatalogCell(mapping, column, amount) ==
    IF column = mapping.date_column THEN CatalogDate(mapping.date_format)
    ELSE IF Some(column) \in {mapping.amount_column, mapping.debit_column, mapping.credit_column}
    THEN amount
    ELSE IF Some(column) = mapping.operation_column THEN <<"C">>
    ELSE IF Some(column) = mapping.type_column THEN <<"D","E","B","I","T">>
    ELSE <<"C","o","f","f","e","e"," ","S","h","o","p">>

CatalogRow(mapping, amount) ==
    [cells |-> [column \in ReadColumns(mapping) |-> Some(CatalogCell(mapping, column, amount))],
     extra |-> FALSE]

CatalogAmounts == { <<"1","2",".","5","0">>, <<"-","1","2",".","5","0">>, <<"1","2",",","5","0">>, <<"1",".","2","3","4">> }

InitCatalog ==
    /\ \E format \in CatalogFormats, amount \in CatalogAmounts :
          /\ config = CatalogConfig(format)
          /\ file = << CatalogRow(BANK_FORMATS(format), amount) >>
          /\ arg = Some(format)
    /\ existing = <<>>
    /\ now = NowStart
    /\ callsLeft = 1
    /\ previews = <<>>
    /\ created = None
    /\ cand = None
    /\ dupResult = None
    /\ result = None
    /\ api = None

\* detect_bank_format on the column names of the dialect's own mapping
DetectCatalogHeaders ==
    /\ result = None
    /\ result' = Some(detect_bank_format(BANK_FORMATS(arg[1]).columns))
    /\ UNCHANGED <<file, config, existing, now, callsLeft, previews, created, cand, dupResult,
                   arg, api>>

NextCatalog == ParseCsvFile \/ DetectCatalogHeaders

SpecCatalog == InitCatalog /\ [][NextCatalog]_vars
(***************************************************************************)
(* Properties of the catalog (SpecCatalog).                                *)
(***************************************************************************)
\* the column the amount of a row is read from
AmountColumnOf(mapping) ==
    IF mapping.debit_column # None /\ mapping.credit_column # None
    THEN mapping.debit_column ELSE mapping.amount_column

\* the number the decimal convention of the mapping gives the amount cell
DeclaredReading(mapping, cell) ==
    IF mapping.decimal_separator = "," THEN _parse_brazilian_amount(cell)
    ELSE _parse_amount(cell)

AgreesWithReading(tx, reading) ==
    IF DebitCreditMode THEN (reading > 0 => tx.amount = reading)
    ELSE tx.amount \in {reading, 0 - reading}

\* C21: for every catalog dialect the amounts of a row are read by the
\* decimal convention its FieldMapping declares: '.' thousands and ','
\* decimal iff decimal_separator is ',', so that NUBANK, which declares '.',
\* reads "12.50" as 12.50.
C21_ParserFollowsSeparator ==
    \A k \in 1..Len(previews) :
        Returned(k) =>
            \A i \in 1..Len(previews[k].preview[1].transactions) :
                ~previews[k].preview[1].transactions[i].has_error =>
                    AgreesWithReading(
                        previews[k].preview[1].transactions[i],
                        DeclaredReading(config.field_mapping,
                                        RowGet(DataRows[i], AmountColumnOf(config.field_mapping)).s))

\* the NUBANK row of 12.50 comes out as 1250.00
C21_Witness ==
    /\ config.bank_format = "nubank"
    /\ config.field_mapping.decimal_separator = "."
    /\ file[1].cells["amount"] = Some(<<"1","2",".","5","0">>)
    /\ Len(previews) = 1 /\ Returned(1)
    /\ ~previews[1].preview[1].transactions[1].has_error
    /\ previews[1].preview[1].transactions[1].amount = 1250000

Detectable == { DetectionOrder[k] : k \in 1..Len(DetectionOrder) }

\* C22: catalog and detector agree: for every dialect detect_bank_format can
\* return, detect_bank_format on the column names of the dialect's catalog
\* FieldMapping returns that dialect.
C22_CatalogDetected ==
    (result # None /\ arg[1] \in Detectable) => result[1] = Some(arg[1])

\* the columns of XP positions are detected as Clear positions
C22_Witness ==
    /\ arg = Some("xp_positions")
    /\ result = Some(Some("clear_positions"))

\* the row with the sign of its amount cell flipped
FlipSign(cell) == IF cell # <<>> /\ Head(cell) = "-" THEN Tail(cell) ELSE <<"-">> \o cell

FlippedRow(row, column) == [row EXCEPT !.cells[column] = Some(FlipSign(row.cells[column][1]))]

TypeOfOnlyRow(r) == r.preview[1].transactions[1].type

\* C25: when the FieldMapping sets amount_is_absolute, the type of a row is
\* not derived from the sign of its amount: the row with the opposite sign
\* gets the same type.
C25_AbsoluteIgnoresSign ==
    (/\ config.field_mapping.amount_is_absolute
     /\ Len(previews) = 1 /\ Returned(1)
     /\ ~previews[1].preview[1].transactions[1].has_error)
    => TypeOfOnlyRow(previews[1])
         = TypeOfOnlyRow(parse_csv_file(<< FlippedRow(file[1], config.field_mapping.amount_column[1]) >>,
                                        config, existing, now))

\* the AMEX row of 12.50 is an income by the sign rule
C25_Witness ==
    /\ config.bank_format = "amex"
    /\ config.field_mapping.amount_is_absolute
    /\ config.field_mapping.type_column = None
    /\ config.field_mapping.operation_column = None
    /\ file[1].cells["Amount"] = Some(<<"1","2",".","5","0">>)
    /\ Len(previews) = 1 /\ Returned(1)
    /\ previews[1].preview[1].transactions[1].type = "income"
    /\ previews[1].preview[1].transactions[1].amount = 12500
(***************************************************************************)
(* Amount and type of a row, per mode (SpecShapes).                        *)
(***************************************************************************)
Positive(x) == ~IsNaN(x) /\ x > 0

\* the result the debit and credit of a row stand for
DebitCreditOutcome(tx, debit, credit) ==
    IF Positive(debit) THEN tx.type = "expense" /\ tx.amount = debit
    ELSE IF Positive(credit) THEN tx.type = "income" /\ tx.amount = credit
    ELSE tx.type = "expense" /\ tx.amount = 0

\* C23: with debit_column and credit_column both configured, a positive debit
\* gives an expense of the debit; otherwise a positive credit gives an income
\* of the credit; otherwise the amount is 0 and the type expense.  The type is
\* never buy, sell or transfer, whatever the type and operation columns hold.
C23_DebitCreditResult ==
    \A k \in 1..Len(previews) :
        (Returned(k) /\ DebitCreditMode) =>
            \A i \in 1..Len(previews[k].preview[1].transactions) :
                /\ previews[k].preview[1].transactions[i].type \notin {"buy", "sell", "transfer"}
                /\ DebitCreditOutcome(previews[k].preview[1].transactions[i],
                                      ShapeCell(DataRows[i], config.field_mapping.debit_column),
                                      ShapeCell(DataRows[i], config.field_mapping.credit_column))

\* debit 5.00 next to credit 7.00, an operation cell "Compra" and a type
\* column: an expense of 5.00
C23_Witness ==
    /\ Len(previews) >= 1 /\ Returned(1) /\ DebitCreditMode
    /\ config.field_mapping.operation_column # None
    /\ config.field_mapping.type_column # None
    /\ Len(previews[1].preview[1].transactions) = 1
    /\ ShapeCell(DataRows[1], config.field_mapping.debit_column) = 5000
    /\ ShapeCell(DataRows[1], config.field_mapping.credit_column) = 7000
    /\ DataRows[1].cells.Operation = Some(<<"C","o","m","p","r","a">>)
    /\ previews[1].preview[1].transactions[1].type = "expense"
    /\ previews[1].preview[1].transactions[1].amount = 5000

\* a credit alone: an income of 7.00
C23_WitnessCredit ==
    /\ Len(previews) >= 1 /\ Returned(1) /\ DebitCreditMode
    /\ Len(previews[1].preview[1].transactions) = 1
    /\ ShapeCell(DataRows[1], config.field_mapping.debit_column) = 0
    /\ ShapeCell(DataRows[1], config.field_mapping.credit_column) = 7000
    /\ previews[1].preview[1].transactions[1].type = "income"
    /\ previews[1].preview[1].transactions[1].amount = 7000

SignMode ==
    /\ ~DebitCreditMode
    /\ config.field_mapping.amount_column # None
    /\ config.field_mapping.operation_column = None
    /\ config.field_mapping.type_column = None

Negative(x) == ~IsNaN(x) /\ x < 0

\* the type the sign of an amount stands for
TypeBySign(negative_means_expense, amount) ==
    IF negative_means_expense
    THEN (IF Negative(amount) THEN "expense" ELSE "income")
    ELSE (IF Negative(amount) THEN "income" ELSE "expense")

\* the configuration with negative_means_expense flipped
FlagFlipped(cfg) ==
    [cfg EXCEPT !.field_mapping.negative_means_expense = ~cfg.field_mapping.negative_means_expense]

\* C24: in single-amount mode with neither operation_column nor type_column,
\* the sign decides the type per negative_means_expense (true: negative is
\* expense, non-negative income; false: negative is income, non-negative
\* expense), and the same row parsed with the flag flipped has the other type.
C24_SignDecidesType ==
    \A k \in 1..Len(previews) :
        (Returned(k) /\ SignMode) =>
            \A i \in 1..Len(previews[k].preview[1].transactions) :
                ~previews[k].preview[1].transactions[i].has_error =>
                    /\ previews[k].preview[1].transactions[i].type =
                           TypeBySign(config.field_mapping.negative_means_expense,
                                      AmountCell(DataRows[i]))
                    /\ previews[k].preview[1].transactions[i].type \in {"income", "expense"}
                    /\ ResolveAmount(DataRows[i], FlagFlipped(config)).type \in {"income", "expense"}
                    /\ ResolveAmount(DataRows[i], FlagFlipped(config)).type #
                           previews[k].preview[1].transactions[i].type

\* an amount of 0.00 under negative_means_expense: an income
C24_Witness ==
    /\ Len(previews) >= 1 /\ Returned(1) /\ SignMode
    /\ config.field_mapping.negative_means_expense
    /\ Len(previews[1].preview[1].transactions) = 1
    /\ ~previews[1].preview[1].transactions[1].has_error
    /\ AmountCell(DataRows[1]) = 0
    /\ previews[1].preview[1].transactions[1].type = "income"

\* -4.50 with the flag unset: an income of 4.50
C24_WitnessFlipped ==
    /\ Len(previews) >= 1 /\ Returned(1) /\ SignMode
    /\ ~config.field_mapping.negative_means_expense
    /\ Len(previews[1].preview[1].transactions) = 1
    /\ AmountCell(DataRows[1]) = 0 - 4500
    /\ previews[1].preview[1].transactions[1].type = "income"
    /\ previews[1].preview[1].transactions[1].amount = 4500

(***************************************************************************)
(* The text of an upload, line by line.  file is the list of the lines of  *)
(* file_content, each the list of its comma-separated cells.               *)
(* parse_csv_file reads it through csv.DictReader; the preview endpoint    *)
(* splits it itself to find the headers it hands to detect_bank_format.    *)
(***************************************************************************)
MaxLines == 3

LinePreamble == << <<"S","t","a","t","e","m","e","n","t">>, <<"2","0","2","4">>, <<"C","A","D">> >>
\* a line with fewer cells than the others
LineShort == << <<"2","0","2","4","-","0","1","-","0","7">>, <<"T","e","a">> >>
LineHeader == << <<"D","a","t","e">>, <<"D","e","s","c","r","i","p","t","i","o","n">>,
                 <<"A","m","o","u","n","t">> >>
LineCoffee == << <<"2","0","2","4","-","0","1","-","0","5">>,
                 <<"C","o","f","f","e","e"," ","S","h","o","p">>, <<"-","4",".","5","0">> >>
LineTea == << <<"2","0","2","4","-","0","1","-","0","7">>, <<"T","e","a">>,
              <<"1","2",".","0","0">> >>

LineSet == {LinePreamble, LineHeader, LineCoffee, LineTea, LineShort}

\* a FieldMapping keyed by the header cells Date, Description, Amount
LinesMapping ==
    [date_column |-> LineHeader[1], description_column |-> LineHeader[2],
     amount_column |-> Some(LineHeader[3]), debit_column |-> None, credit_column |-> None,
     type_column |-> None, operation_column |-> None,
     date_format |-> FmtIso, negative_means_expense |-> TRUE]

LinesConfig(skip_rows) ==
    [bank_format |-> "generic",
     field_mapping |-> LinesMapping,
     skip_rows |-> skip_rows,
     skip_duplicates |-> TRUE,
     date_range_start |-> None,
     date_range_end |-> None]

\* the position whose cell a key of the dict takes: dict(zip(fieldnames, row))
\* keeps the last cell of a repeated field name
LastAt(fieldnames, h) ==
    CHOOSE j \in 1..Len(fieldnames) :
        fieldnames[j] = h /\ \A l \in (j + 1)..Len(fieldnames) : fieldnames[l] # h

\* a row of csv.DictReader: the cells under the field names, None (restval)
\* for the field names a short line leaves out, and the key None (restkey)
\* when the line has more cells than there are field names
DictRow(fieldnames, line) ==
    [cells |-> [h \in { fieldnames[j] : j \in 1..Len(fieldnames) } |->
                   IF LastAt(fieldnames, h) <= Len(line)
                   THEN Some(line[LastAt(fieldnames, h)]) ELSE None],
     extra |-> Len(line) > Len(fieldnames)]

\* list(csv.DictReader(io.StringIO(file_content))): the first line gives the
\* field names, every line after it a row
DictReader(lines) ==
    IF lines = <<>> THEN <<>>
    ELSE [i \in 1..(Len(lines) - 1) |-> DictRow(lines[1], lines[i + 1])]

\* file_content.strip().split('\n'), cell by cell: the empty text is one
\* empty line, of one empty cell
SplitLines(lines) == IF lines = <<>> THEN << << <<>> >> >> ELSE lines

IndexError == Msg("list index out of range", <<>>, 0, 0)

\* headers = lines[skip_rows].split(','), then detect_bank_format(headers)
HeadersAt(lines, skip_rows) ==
    IF skip_rows + 1 > Len(lines)
    THEN [exc |-> Some(IndexError), headers |-> <<>>, detected_format |-> None]
    ELSE [exc |-> None, headers |-> lines[skip_rows + 1],
          detected_format |-> detect_bank_format(lines[skip_rows + 1])]

InitLines ==
    /\ file \in SeqsUpTo(LineSet, MaxLines)
    /\ config \in { LinesConfig(skip_rows) : skip_rows \in 0..MaxSkip }
    /\ existing = <<>>
    /\ now = NowStart
    /\ callsLeft = 1
    /\ previews = <<>>
    /\ created = None
    /\ cand = None
    /\ dupResult = None
    /\ arg = None
    /\ result = None
    /\ api = None

\* a call parse_csv_file(file_content, config, existing_transactions) on the
\* text
ParseCsvText ==
    /\ callsLeft > 0
    /\ previews' = Append(previews, parse_csv_file(DictReader(file), config, existing, now))
    /\ callsLeft' = callsLeft - 1
    /\ UNCHANGED <<file, config, existing, now, created, cand, dupResult, arg, result, api>>

\* preview_csv_import on the same text and skip_rows, up to the detection of
\* the format
PreviewHeaders ==
    /\ result = None
    /\ result' = Some(HeadersAt(SplitLines(file), config.skip_rows))
    /\ UNCHANGED <<file, config, existing, now, callsLeft, previews, created, cand, dupResult,
                   arg, api>>

NextLines == ParseCsvText \/ PreviewHeaders

SpecLines == InitLines /\ [][NextLines]_vars

(***************************************************************************)
(* The header row under skip_rows (SpecLines).                             *)
(***************************************************************************)
\* the rows of the lines after a header line, keyed by its cells
KeyedBy(header, lines) == [i \in 1..Len(lines) |-> DictRow(header, lines[i])]

\* the preview of the text whose header is line skip_rows + 1 and whose data
\* rows are the lines after it
PreviewBelowHeader(lines, cfg) ==
    parse_csv_file(KeyedBy(lines[cfg.skip_rows + 1],
                           SubSeq(lines, cfg.skip_rows + 2, Len(lines))),
                   [cfg EXCEPT !.skip_rows = 0], existing, now)

\* C26: with skip_rows = k, line k+1 of the text is the header row whose
\* cells key every parsed row and the lines after it are the data rows; the
\* headers the preview endpoint hands to format detection are the row the
\* parser uses as header.
C26_HeaderAfterSkip ==
    /\ \A k \in 1..Len(previews) :
          Len(file) > config.skip_rows => previews[k] = PreviewBelowHeader(file, config)
    /\ (result # None /\ file # <<>> /\ result[1].exc = None) => result[1].headers = file[1]

\* one preamble line skipped: the data line is keyed by the preamble, not by
\* the header line below it, and its date cell is not found
C26_Witness ==
    /\ file = <<LinePreamble, LineHeader, LineCoffee>>
    /\ config.skip_rows = 1
    /\ Len(previews) = 1 /\ Returned(1)
    /\ Len(previews[1].preview[1].transactions) = 1
    /\ previews[1].preview[1].transactions[1].has_error
    /\ previews[1].preview[1].transactions[1].error_message = Some(CouldNotParseDate(<<>>))
    /\ result # None
    /\ result[1].headers = LineHeader

\* no row skipped: line 1 is the header for the parser and for the endpoint
C26_WitnessNoSkip ==
    /\ file = <<LineHeader, LineCoffee>>
    /\ config.skip_rows = 0
    /\ Len(previews) = 1 /\ Returned(1)
    /\ Len(previews[1].preview[1].transactions) = 1
    /\ ~previews[1].preview[1].transactions[1].has_error
    /\ previews[1].preview[1].transactions[1].amount = 4500
    /\ result # None
    /\ result[1].headers = LineHeader

(***************************************************************************)
(* Rows whose date cells are written in several formats, parsed under      *)
(* each configured date_format.                                            *)
(***************************************************************************)
DateRow(date) ==
    [cells |-> [Date |-> Some(date),
                Description |-> Some(<<"T","e","a">>),
                Amount |-> Some(<<"1","2",".","0","0">>)],
     extra |-> FALSE]

\* ISO; a slash date that reads both month-first and day-first, bare and
\* padded; a slash date that only reads day-first; ISO with slashes; no
\* calendar date; no date
DateStrings ==
    { <<"2","0","2","4","-","0","1","-","0","5">>,
      <<"0","1","/","0","7","/","2","0","2","4">>,
      <<" ","0","1","/","0","7","/","2","0","2","4"," ">>,
      <<"1","3","/","0","1","/","2","0","2","4">>,
      <<"2","0","2","4","/","0","1","/","0","5">>,
      <<"2","0","2","4","-","0","2","-","3","0">>,
      <<" ","s","o","o","n"," ">> }

DateFormats == {FmtIso, FmtUsSlash, FmtDaySlash, FmtIsoSlash}

DateConfig(date_format) ==
    [bank_format |-> "generic",
     field_mapping |-> [GenericMapping(TRUE) EXCEPT !.date_format = date_format],
     skip_rows |-> 0,
     skip_duplicates |-> FALSE,
     date_range_start |-> None,
     date_range_end |-> None]

InitDates ==
    /\ file \in SeqsUpTo({ DateRow(date) : date \in DateStrings }, MaxRows)
    /\ config \in { DateConfig(date_format) : date_format \in DateFormats }
    /\ existing = <<>>
    /\ now = NowStart
    /\ callsLeft = 1
    /\ previews = <<>>
    /\ created = None
    /\ cand = None
    /\ dupResult = None
    /\ arg = None
    /\ result = None
    /\ api = None

NextDates == ParseCsvFile

SpecDates == InitDates /\ [][NextDates]_vars

(***************************************************************************)
(* The order of the date formats (SpecDates).                              *)
(***************************************************************************)
\* the configured format, then the fixed list
DateOrder(date_format) == <<date_format, FmtIso, FmtUsSlash, FmtDaySlash, FmtIsoSlash>>

Matching(date_str, fmts) == { j \in 1..Len(fmts) : Strptime(date_str, fmts[j]) # <<>> }

\* the day the first matching format of a list reads, if any format matches
FirstMatching(date_str, fmts) ==
    IF Matching(date_str, fmts) = {} THEN <<>>
    ELSE Strptime(date_str,
                  fmts[CHOOSE j \in Matching(date_str, fmts) :
                           \A l \in Matching(date_str, fmts) : j <= l])

DateCell(row) == Strip(row.cells.Date[1])

DatedAs(tx, date_str, day) ==
    IF day # <<>>
    THEN ~tx.has_error /\ tx.date = DateTime(day[1], 0)
    ELSE /\ tx.has_error
         /\ tx.error_message = Some(CouldNotParseDate(date_str))
         /\ tx.description = ParseErrorDescription

\* C27: the date of a row is read with the configured date_format when it
\* matches, otherwise with the first matching format of %Y-%m-%d, %m/%d/%Y,
\* %d/%m/%Y, %Y/%m/%d in that order; when none matches the row is an error
\* row whose message names the date string.
C27_DateOrder ==
    \A k \in 1..Len(previews) :
        Returned(k) =>
            \A i \in 1..Len(previews[k].preview[1].transactions) :
                DatedAs(previews[k].preview[1].transactions[i], DateCell(DataRows[i]),
                        FirstMatching(DateCell(DataRows[i]),
                                      DateOrder(config.field_mapping.date_format)))

\* 01/07/2024 under the configured format %Y-%m-%d: read month-first, as the
\* 7th of January
C27_Witness ==
    /\ config.field_mapping.date_format = FmtIso
    /\ Len(previews) = 1 /\ Returned(1)
    /\ Len(previews[1].preview[1].transactions) >= 1
    /\ DateCell(DataRows[1]) = <<"0","1","/","0","7","/","2","0","2","4">>
    /\ ~previews[1].preview[1].transactions[1].has_error
    /\ previews[1].preview[1].transactions[1].date = DateTime(DayNumber(2024, 1, 7), 0)

\* the same cell under the configured format %d/%m/%Y: the 1st of July
C27_WitnessConfigured ==
    /\ config.field_mapping.date_format = FmtDaySlash
    /\ Len(previews) = 1 /\ Returned(1)
    /\ Len(previews[1].preview[1].transactions) >= 1
    /\ DateCell(DataRows[1]) = <<"0","1","/","0","7","/","2","0","2","4">>
    /\ previews[1].preview[1].transactions[1].date = DateTime(DayNumber(2024, 7, 1), 0)

\* no format matches: an error row
C27_WitnessNoMatch ==
    /\ Len(previews) = 1 /\ Returned(1)
    /\ Len(previews[1].preview[1].transactions) >= 1
    /\ DateCell(DataRows[1]) = <<"s","o","o","n">>
    /\ previews[1].preview[1].transactions[1].has_error
    /\ previews[1].preview[1].transactions[1].error_message =
           Some(CouldNotParseDate(<<"s","o","o","n">>))

(***************************************************************************)
(* Symbols, parentheses and failures of the amount parsers (SpecAmounts).  *)
(***************************************************************************)
\* the value of a bare number of CurrencyBodies, in millionths
BareValue(b) == IF b = <<"7">> THEN 7000000 ELSE 12500000

\* C28: _parse_amount strips each of $, €, £, R$, C$, CAD, USD, BRL: a number
\* with one of them before or after it parses to the value of the bare
\* number, and a number in parentheses to its negative.
C28_SymbolsStripped ==
    result.anglophone # None =>
        \A b \in CurrencyBodies :
            /\ arg = Some(b) => result.anglophone[1] = BareValue(b)
            /\ \A sym \in CurrencySymbols :
                  arg \in {Some(sym \o b), Some(b \o sym)} => result.anglophone[1] = BareValue(b)
            /\ arg = Some(<<"(">> \o b \o <<")">>) => result.anglophone[1] = 0 - BareValue(b)

\* _parse_amount("R$12.5") is 0.0
C28_Witness ==
    /\ arg = Some(<<"R","$","1","2",".","5">>)
    /\ result.anglophone = Some(0)

\* _parse_amount("12.5CAD") is 12.5 and _parse_amount("(7)") is -7.0
C28_WitnessCode ==
    \/ arg = Some(<<"1","2",".","5","C","A","D">>) /\ result.anglophone = Some(12500000)
    \/ arg = Some(<<"(","7",")">>) /\ result.anglophone = Some(0 - 7000000)

\* C29: both parsers return a number for every string: 0.0 for the empty
\* string and for a string that is no number after stripping, never
\* not-a-number.
C29_TotalParsers ==
    /\ result.anglophone # None =>
          /\ ~IsNaN(result.anglophone[1])
          /\ arg[1] \in AmountOddities \cup {<<"a","b","c">>, <<"(","a","b","c",")">>}
                => result.anglophone[1] = 0
    /\ result.brazilian # None =>
          /\ ~IsNaN(result.brazilian[1])
          /\ arg[1] \in AmountOddities \cup {<<"a","b","c">>, <<"(","a","b","c",")">>}
                => result.brazilian[1] = 0

\* _parse_amount("nan") and _parse_brazilian_amount("nan") are float('nan')
C29_Witness ==
    /\ arg = Some(<<"n","a","n">>)
    /\ result.anglophone # None /\ IsNaN(result.anglophone[1])
    /\ result.brazilian # None /\ IsNaN(result.brazilian[1])

(***************************************************************************)
(* Rows by their description cell: text, empty, blank, left out by a short *)
(* line, or under a header that has no description column.                 *)
(***************************************************************************)
DescriptionCells ==
    { Some(<<" ","T","e","a"," ">>), Some(<<>>), Some(<<" "," ">>), Some(<<"\t"," ">>), None }

DescriptionDates ==
    { <<"2","0","2","4","-","0","1","-","0","5">>, <<"2","0","2","4","-","0","2","-","3","0">> }

\* a row under the header Date,Description,Amount
DescribedRow(date, description) ==
    [cells |-> [Date |-> Some(date),
                Description |-> description,
                Amount |-> IF description = None THEN None ELSE Some(<<"1","2",".","0","0">>)],
     extra |-> FALSE]

\* a row under the header Date,Amount
UndescribedRow(date) ==
    [cells |-> [Date |-> Some(date), Amount |-> Some(<<"1","2",".","0","0">>)],
     extra |-> FALSE]

DescribedRows == { DescribedRow(date, d) : date \in DescriptionDates, d \in DescriptionCells }
UndescribedRows == { UndescribedRow(date) : date \in DescriptionDates }

InitDescriptions ==
    /\ file \in SeqsUpTo(DescribedRows, MaxRows) \cup SeqsUpTo(UndescribedRows, MaxRows)
    /\ config = DateConfig(FmtIso)
    /\ existing = <<>>
    /\ now = NowStart
    /\ callsLeft = 1
    /\ previews = <<>>
    /\ created = None
    /\ cand = None
    /\ dupResult = None
    /\ arg = None
    /\ result = None
    /\ api = None

NextDescriptions == ParseCsvFile

SpecDescriptions == InitDescriptions /\ [][NextDescriptions]_vars

(***************************************************************************)
(* Descriptions are never empty (SpecDescriptions).                        *)
(***************************************************************************)
\* what row.get(description_column, "") returns for a data row
DescriptionCell(row) == RowGet(row, Some(config.field_mapping.description_column))

NoDescription(row) == DescriptionCell(row).str /\ Strip(DescriptionCell(row).s) = <<>>

\* C30: no TransactionPreview has an empty description: a row whose
\* description cell is missing, empty or whitespace-only gets "Imported
\* Transaction", and a row whose parsing raised gets "Parse Error".
C30_DescriptionNeverEmpty ==
    \A k \in 1..Len(previews) :
        Returned(k) =>
            \A i \in 1..Len(previews[k].preview[1].transactions) :
                /\ previews[k].preview[1].transactions[i].description # <<>>
                /\ Strip(previews[k].preview[1].transactions[i].description) # <<>>
                /\ previews[k].preview[1].transactions[i].has_error
                      => previews[k].preview[1].transactions[i].description = ParseErrorDescription
                /\ (~previews[k].preview[1].transactions[i].has_error /\ NoDescription(DataRows[i]))
                      => previews[k].preview[1].transactions[i].description = PlaceholderDescription

\* a whitespace-only cell: the placeholder
C30_Witness ==
    /\ Len(previews) = 1 /\ Returned(1)
    /\ Len(previews[1].preview[1].transactions) >= 1
    /\ DataRows[1].cells.Date = Some(<<"2","0","2","4","-","0","1","-","0","5">>)
    /\ "Description" \in DOMAIN DataRows[1].cells
    /\ DataRows[1].cells.Description = Some(<<"\t"," ">>)
    /\ ~previews[1].preview[1].transactions[1].has_error
    /\ previews[1].preview[1].transactions[1].description = PlaceholderDescription

\* no description column in the header: the placeholder
C30_WitnessNoColumn ==
    /\ Len(previews) = 1 /\ Returned(1)
    /\ Len(previews[1].preview[1].transactions) >= 1
    /\ "Description" \notin DOMAIN DataRows[1].cells
    /\ ~previews[1].preview[1].transactions[1].has_error
    /\ previews[1].preview[1].transactions[1].description = PlaceholderDescription

\* a short line, whose description cell is None: "Parse Error"
C30_WitnessRaised ==
    /\ Len(previews) = 1 /\ Returned(1)
    /\ Len(previews[1].preview[1].transactions) >= 1
    /\ "Description" \in DOMAIN DataRows[1].cells
    /\ DataRows[1].cells.Description = None
    /\ previews[1].preview[1].transactions[1].has_error
    /\ previews[1].preview[1].transactions[1].description = ParseErrorDescription

====
